---- MODULE Spec2Model ----
(***************************************************************************)
(* foonathan/memory: detail::block_list<RawAllocator> over the intrusive   *)
(* detail::block_list_impl, together with the upstream raw allocator it    *)
(* obtains its blocks from.                                                *)
(*                                                                         *)
(* A block is identified by the serial number of the upstream allocation   *)
(* that produced it (1, 2, ...); NULL is 0.  Its begin address is          *)
(* Addr(p); the node header {prev, size} lives in the first impl_offset    *)
(* bytes of the block, in the variable node.  Sizes are std::size_t of     *)
(* SizeBits bits; the upstream allocator never hands out a block larger    *)
(* than UpstreamMax bytes and may refuse any request.                      *)
(***************************************************************************)
EXTENDS Integers, Sequences, FiniteSets, TLC

\* ---------------------------------------------------------------- bounds
\* upstream allocations made in one run
MaxBlocks == 3
\* width of std::size_t
SizeBits == 8

SizeMod == 2 ^ SizeBits
\* the largest object the address space can hold (PTRDIFF_MAX)
UpstreamMax == (SizeMod \div 2) - 1
\* block sizes passed to the constructor block_list(block_size, alloc)
InitSizes == {32}
\* the block size the first block_list is constructed with
InitBlockSize == 24

\* the block_list objects of a run: 1 exists from the start, 2 is
\* constructed (from a block size or by move) during the run
Lists == {1, 2}
Ptr == 1 .. MaxBlocks
NULL == 0

\* ------------------------------------------------------ program constants
\* sizeof(block_list_impl::node): a pointer and a std::size_t
impl_offset == 16
growth_factor == 2

VARIABLES
    lstate,           \* per block_list object: "unborn", "live" or "dead"
                      \* ("aborted" once an assertion has failed)
    used_,            \* block_list::used_.head_
    free_,            \* block_list::free_.head_
    size_,            \* block_list::size_
    cur_block_size_,  \* block_list::cur_block_size_
    node,             \* the node header stored at the begin of each block
    heap,             \* the upstream allocator's record of each allocation
    badFree,          \* the upstream was handed a pointer it never returned
    nextPtr,          \* serial number of the next upstream allocation
    initial_block_size, \* the block size each block_list was constructed with
    fresh,            \* the fresh upstream blocks each block_list has obtained
    assigned,         \* the block_list took part in a move assignment with
                      \* another block_list
    lastOp,           \* the last operation, its upstream calls and its result
    underflow         \* the "stack underflow" assertion that has failed

blockVars == <<lstate, used_, free_, size_, cur_block_size_, node, heap,
               badFree, nextPtr, initial_block_size, fresh, assigned, lastOp,
               underflow>>

history == <<initial_block_size, fresh, assigned>>

\* --------------------------------------- allocator_storage and its mutex
\* the threads of a run
Threads == {1, 2}
\* the allocator_storage objects of a run:
\*   1  allocator_storage<reference_storage<A>, std::mutex> on the stateful
\*      allocator object 1
\*   2  a copy of 1: the same allocator object, a mutex_storage of its own
\*   3  allocator_storage<direct_storage<S>, std::mutex> with S stateless
Wrappers == {1, 2, 3}
\* allocator_traits<allocator_type>::is_stateful of each wrapper
is_stateful == [w \in Wrappers |-> w # 3]
\* the allocator object get_allocator() of each wrapper yields
stored == [w \in Wrappers |-> IF w = 3 THEN 2 ELSE 1]
\* the locked_allocator objects a run can create: each thread has room for
\* two of them (the one lock() returns and one it is moved into)
Proxies == {1, 2, 3, 4}
local_of == [p \in Proxies |-> IF p <= 2 THEN 1 ELSE 2]
\* the object the result of a thread's lock() is returned into
lock_result == [t \in Threads |-> 2 * t - 1]
\* the operations of allocator_storage that lock for one call
CallOps == {"allocate_node", "allocate_array", "deallocate_node",
            "deallocate_array", "max_node_size", "max_array_size",
            "max_alignment"}
\* deallocate_node and deallocate_array are noexcept
MayThrow == CallOps \ {"deallocate_node", "deallocate_array"}

VARIABLES
    pc,        \* per thread: its position inside the current call
    call,      \* per thread: the call it is executing
    mutex_,    \* per allocator_storage: the thread owning mutex_storage::mutex_
    proxy      \* per locked_allocator: its state, mutex_, alloc_ and thread

storageVars == <<pc, call, mutex_, proxy>>

VARIABLES
    born,      \* the allocator_storage objects that are constructed
    lastCopy   \* the last construction, copy, move or assignment of one

copyVars == <<born, lastCopy>>

\* ------------------------------------------------- reference_storage
\* the largest count passed to allocate_array / deallocate_array
MaxCount == 2
\* the node / element sizes passed to the operations
Sizes == {8}
\* the reference_storage objects of a run
Refs == {1, 2}
\* the allocators references are made of: 1 and 2 are objects of a stateful
\* allocator type, 3 stands for a stateless type, whose instances share the
\* state kept outside of them
Allocators == {1, 2, 3}
stateful == [a \in Allocators |-> a # 3]
\* the memory each allocator can have handed out at one time
Slots == {1}
\* what max_node_size(), max_array_size() and max_alignment() of the
\* allocators return
max_node == 64
max_array == 32
max_align == 16
\* the uniform operation set
RefOps == {"allocate_node", "allocate_array", "deallocate_node",
           "deallocate_array", "max_node_size", "max_array_size",
           "max_alignment"}

VARIABLES
    ref,        \* per reference_storage: the object's members
    allocated,  \* per allocator: the memory it has handed out, with the
                \* operation and arguments that obtained it
    lastRefOp   \* the last operation made through a reference, the
                \* allocator get_allocator() yielded, the result, and what
                \* the memory a deallocation returned had been obtained as

referenceVars == <<ref, allocated, lastRefOp>>

\* ------------------------------------------------ debugging handlers
\* the process-wide handlers
Kinds == {"leak", "invalid_pointer", "buffer_overflow"}
\* the handlers a program installs
UserHandlers == {"h1", "h2"}
nullptr == "nullptr"

VARIABLES
    handler_h,  \* leak_h, invalid_ptr_h and buffer_overflow_h
    hcall,      \* per thread: its call of a set_*_handler / get_*_handler
                \* function, or the handler it got and is about to invoke
    aborted,    \* std::abort() was called
    ledger      \* per kind and handler: how many set calls that have
                \* returned installed it, less how many returned it as the
                \* previous handler

handlerVars == <<handler_h, hcall, aborted, ledger>>

\* ------------------------------------------------ log2_access_policy
\* the two ilog2 a build can contain: the count-leading-zeros one under
\* __GNUC__, the shift loop otherwise
Builds == {"clz", "loop"}

\* width of int, the type of the literal 1
IntBits == 4
IntMod == 2 ^ IntBits

VARIABLES
    log2_call,  \* the last call of a log2_access_policy function: the build,
                \* the function, its argument and what it returned
    log2_prev   \* the index_from_size call whose bucket, or the bucket
                \* below it, the last size_from_index call was asked about;
                \* or the size_from_index call whose result the last
                \* index_from_size call was passed

policyVars == <<log2_call, log2_prev>>

\* ------------------------------------------- new_allocator and error.hpp
\* nodes new_allocator can have handed out at one time
MaxNew == 2
NewPtrs == 1 .. MaxNew
\* node sizes asked of new_allocator::allocate_node
NodeSizes == {8, 24}
\* calls of the low-level allocation function followed in one request
MaxTries == 3
\* leak checker initializer objects (one per translation unit)
MaxInit == 2
\* values passed to check_allocation_size
MaxPassed == 2
\* the allocator_info objects passed to check_allocation_size
Infos == {"a", "b"}

VARIABLES
    npc,            \* where try_allocate stands in its loop
    request,        \* the allocate_node request being served
    new_nodes,      \* the size of each node ::operator new has handed out
    alloc_counter,  \* new_allocator.cpp: alloc_counter
    init_counter,   \* new_allocator.cpp: init_counter
    new_handler,    \* std::get_new_handler() is not null
    lastNew         \* the last operation that returned or raised

newVars == <<npc, request, new_nodes, alloc_counter, init_counter,
             new_handler, lastNew>>

VARIABLES
    ncall   \* per thread: its call of new_allocator::allocate_node or
            \* deallocate_node made next to other threads' calls, and the
            \* value of alloc_counter it has read

raceVars == <<ncall>>

\* ------------------------------------------------------------ all state
vars == <<blockVars, storageVars, copyVars, referenceVars, handlerVars,
          policyVars, newVars, raceVars>>

\* what the operations of one component leave alone
outsideBlockList == <<copyVars, raceVars, storageVars, referenceVars, handlerVars, policyVars,
                      newVars>>
outsideStorage == <<copyVars, raceVars, blockVars, referenceVars, handlerVars, policyVars,
                    newVars>>
outsideReference == <<copyVars, raceVars, blockVars, storageVars, handlerVars, policyVars,
                      newVars>>
outsideHandlers == <<copyVars, raceVars, blockVars, storageVars, referenceVars, policyVars,
                     newVars>>
outsidePolicy == <<copyVars, raceVars, blockVars, storageVars, referenceVars, handlerVars,
                   newVars>>
outsideNew == <<copyVars, raceVars, blockVars, storageVars, referenceVars, handlerVars,
                policyVars>>

\* ------------------------------------------------------------- addresses
\* begin address of the block of upstream allocation p
Addr(p) == p * SizeMod

\* the allocation whose block begins at address a, NULL if there is none
PtrAt(a) == IF a % SizeMod = 0 /\ (a \div SizeMod) \in Ptr
            THEN a \div SizeMod ELSE NULL

\* block_info{memory, size}
block_info(mem, s) == [memory |-> mem, size |-> s]

NoBlock == block_info(0, 0)

\* ------------------------------------------------- std::size_t arithmetic
Add(a, b) == (a + b) % SizeMod
Sub(a, b) == (a - b) % SizeMod
Mul(a, b) == (a * b) % SizeMod

\* ------------------------------------------------------- block_list_impl
\* block_list_impl::empty()
impl_empty(head) == head = NULL

\* push(memory, size) that forgets to advance memory past the node
impl_push_noadvance(nd, head, memory, size) ==
    LET ptr == PtrAt(memory)
    IN  [node   |-> [nd EXCEPT ![ptr] = [prev |-> head, size |-> size]],
         head   |-> ptr,
         memory |-> memory,
         ret    |-> impl_offset]

\* block_list_impl::push(void*& memory, std::size_t size): constructs the
\* node in the block and makes it the head; memory is advanced past it
impl_push(nd, head, memory, size) ==
    LET ptr == PtrAt(memory)
    IN  [node   |-> [nd EXCEPT ![ptr] = [prev |-> head, size |-> size]],
         head   |-> ptr,
         memory |-> memory + impl_offset,
         ret    |-> impl_offset]

\* push(other) that forgets top->prev = head_
impl_push_other_norelink(nd, head, otherHead) ==
    LET top == otherHead
    IN  [node  |-> nd,
         other |-> nd[top].prev,
         head  |-> top,
         ret   |-> block_info(Addr(top) + impl_offset,
                              Sub(nd[top].size, impl_offset))]

\* push(other) that forgets other.head_ = top->prev
impl_push_other_keeptop(nd, head, otherHead) ==
    LET top == otherHead
    IN  [node  |-> [nd EXCEPT ![top].prev = head],
         other |-> otherHead,
         head  |-> top,
         ret   |-> block_info(Addr(top) + impl_offset,
                              Sub(nd[top].size, impl_offset))]

\* push(other) that forgets head_ = top
impl_push_other_nohead(nd, head, otherHead) ==
    LET top == otherHead
    IN  [node  |-> [nd EXCEPT ![top].prev = head],
         other |-> nd[top].prev,
         head  |-> head,
         ret   |-> block_info(Addr(top) + impl_offset,
                              Sub(nd[top].size, impl_offset))]

\* block_list_impl::push(block_list_impl& other): unlinks the top of other
\* and links it on top of this list
impl_push_other(nd, head, otherHead) ==
    LET top == otherHead
    IN  [node  |-> [nd EXCEPT ![top].prev = head],
         other |-> nd[top].prev,
         head  |-> top,
         ret   |-> block_info(Addr(top) + impl_offset,
                              Sub(nd[top].size, impl_offset))]

\* pop() that reports the usable size instead of the original size
impl_pop_usable(nd, head) ==
    LET top == head
    IN  [head |-> nd[top].prev,
         ret  |-> block_info(Addr(top), Sub(nd[top].size, impl_offset))]

\* block_list_impl::pop(): the block with its begin and its original size
impl_pop(nd, head) ==
    LET top == head
    IN  [head |-> nd[top].prev,
         ret  |-> block_info(Addr(top), nd[top].size)]

\* top() that reports the whole block, node included
impl_top_whole(nd, head) == block_info(Addr(head), nd[head].size)

\* block_list_impl::top(): the usable part of the top block
impl_top(nd, head) ==
    block_info(Addr(head) + impl_offset, Sub(nd[head].size, impl_offset))

\* FOONATHAN_MEMORY_ASSERT_MSG(head_, "stack underflow") of push(other),
\* pop() and top() fails
stack_underflow(head) == head = NULL

\* ------------------------------------------------- the upstream allocator
NoAlloc == [st |-> "unalloc", size |-> 0, rets |-> 0, ok |-> TRUE]

\* traits::allocate_array(alloc, count, size, alignment) succeeding with
\* the block of allocation p
UpAllocate(hp, count, size, p) ==
    [hp EXCEPT ![p] = [st |-> "out", size |-> count * size, rets |-> 0,
                       ok |-> TRUE]]

\* traits::deallocate_array(alloc, memory, count, size, alignment) on the
\* upstream state up = [heap, bad, log]: the upstream counts the returns of
\* the block and notes whether it came back with the size it was requested
\* with; a pointer that is no block's begin is a bad free
UpDeallocate(up, memory, count, size) ==
    LET p == PtrAt(memory)
    IN  IF p = NULL \/ up.heap[p].st = "unalloc"
        THEN [up EXCEPT !.bad = TRUE]
        ELSE [heap |-> [up.heap EXCEPT ![p] =
                           [st   |-> "ret",
                            size |-> 0,
                            rets |-> IF @.rets < 2 THEN @.rets + 1 ELSE 2,
                            ok   |-> @.ok /\ @.st = "out"
                                          /\ count * size = @.size]],
              bad  |-> up.bad,
              log  |-> Append(up.log, block_info(memory, count * size))]

\* the node header of a block lies in the block: it is gone with the block
Reclaim(nd, hp) ==
    [p \in Ptr |-> IF hp[p].st = "ret" THEN [prev |-> NULL, size |-> 0]
                   ELSE nd[p]]

UpState == [heap |-> heap, bad |-> badFree, log |-> <<>>]

\* ------------------------------------------------------------ block_list
Op(name, l, o, req, threw, ret, released) ==
    [op |-> name, l |-> l, o |-> o, req |-> req, threw |-> threw,
     ret |-> ret, released |-> released]

\* the loop of shrink_to_fit() and of ~block_list():
\*   while (!list.empty()) { auto block = list.pop();
\*       traits::deallocate_array(get_allocator(), block.memory,
\*                                block.size, 1, detail::max_alignment); }
RECURSIVE release_all(_, _, _)
release_all(up, nd, head) ==
    IF impl_empty(head) THEN up
    ELSE LET block == impl_pop(nd, head)
         IN  release_all(UpDeallocate(up, block.ret.memory,
                                      block.ret.size, 1),
                         nd, block.head)

\* an assertion of pop() fails in that loop
RECURSIVE release_all_underflow(_, _)
release_all_underflow(nd, head) ==
    IF impl_empty(head) THEN FALSE
    ELSE \/ stack_underflow(head)
         \/ release_all_underflow(nd, impl_pop(nd, head).head)

NoUnderflow == [op |-> "none", l |-> 0, size |-> 0]

\* what a failed assertion leaves behind: the operation, the list and the
\* size() the list had when the operation was called
Underflow(failed, sizes, name, l) ==
    IF failed THEN [op |-> name, l |-> l, size |-> sizes[l]] ELSE NoUnderflow

\* a destructor that only shrinks and forgets the used blocks
destroy_list_shrink_only(up, nd, usedHead, freeHead) ==
    release_all(up, nd, freeHead)

\* ~block_list(): shrink_to_fit(), then every used block
destroy_list(up, nd, usedHead, freeHead) ==
    release_all(release_all(up, nd, freeHead), nd, usedHead)

\* block_list::top()
top(l) == impl_top(node, used_[l])

\* block_list::size()
size(l) == size_[l]

\* block_list::next_block_size()
next_block_size(l) == Sub(cur_block_size_[l], impl_offset)

\* block_list(std::size_t block_size, allocator&& alloc)
Construct(l, block_size) ==
    /\ lstate[l] = "unborn"
    /\ lstate' = [lstate EXCEPT ![l] = "live"]
    /\ used_' = [used_ EXCEPT ![l] = NULL]
    /\ free_' = [free_ EXCEPT ![l] = NULL]
    /\ size_' = [size_ EXCEPT ![l] = 0]
    /\ cur_block_size_' = [cur_block_size_ EXCEPT ![l] = block_size]
    /\ initial_block_size' = [initial_block_size EXCEPT ![l] = block_size]
    /\ lastOp' = Op("construct", l, 0, 0, FALSE, NoBlock, <<>>)
    /\ UNCHANGED <<node, heap, badFree, nextPtr, fresh, assigned, underflow>>
    /\ UNCHANGED outsideBlockList

\* block_list::allocate(), the upstream allocation succeeding
AllocateFresh(l) ==
    /\ impl_empty(free_[l])
    /\ nextPtr <= MaxBlocks
    /\ cur_block_size_[l] <= UpstreamMax
    /\ LET memory == Addr(nextPtr)
           pushed == impl_push(node, used_[l], memory, cur_block_size_[l])
           sz     == Sub(cur_block_size_[l], pushed.ret)
       IN  /\ heap' = UpAllocate(heap, cur_block_size_[l], 1, nextPtr)
           /\ nextPtr' = nextPtr + 1
           /\ size_' = [size_ EXCEPT ![l] = Add(@, 1)]
           /\ node' = pushed.node
           /\ used_' = [used_ EXCEPT ![l] = pushed.head]
           /\ cur_block_size_' =
                  [cur_block_size_ EXCEPT ![l] = Mul(@, growth_factor)]
           /\ lastOp' = Op("allocate", l, 0, cur_block_size_[l], FALSE,
                           block_info(pushed.memory, sz), <<>>)
    /\ fresh' = [fresh EXCEPT ![l] = @ + 1]
    /\ UNCHANGED <<lstate, free_, badFree, initial_block_size,
                   assigned, underflow>>

\* allocate() that counts the block before the upstream call
AllocateThrow_counted(l) ==
    /\ impl_empty(free_[l])
    /\ size_' = [size_ EXCEPT ![l] = Add(@, 1)]
    /\ lastOp' = Op("allocate", l, 0, cur_block_size_[l], TRUE, NoBlock, <<>>)
    /\ UNCHANGED <<lstate, used_, free_, cur_block_size_,
                   node, heap, badFree, nextPtr, history, underflow>>

\* block_list::allocate(), traits::allocate_array raising
AllocateThrow(l) ==
    /\ impl_empty(free_[l])
    /\ lastOp' = Op("allocate", l, 0, cur_block_size_[l], TRUE, NoBlock, <<>>)
    /\ UNCHANGED <<lstate, used_, free_, size_, cur_block_size_,
                   node, heap, badFree, nextPtr, history, underflow>>

\* allocate() that grows cur_block_size_ on every call
AllocateCached_grow(l) ==
    /\ ~impl_empty(free_[l])
    /\ LET pushed == impl_push_other(node, used_[l], free_[l])
       IN  /\ size_' = [size_ EXCEPT ![l] = Add(@, 1)]
           /\ node' = pushed.node
           /\ used_' = [used_ EXCEPT ![l] = pushed.head]
           /\ free_' = [free_ EXCEPT ![l] = pushed.other]
           /\ lastOp' = Op("allocate", l, 0, 0, FALSE, pushed.ret, <<>>)
           /\ underflow' = Underflow(stack_underflow(free_[l]), size_,
                                     "allocate", l)
    /\ cur_block_size_' =
           [cur_block_size_ EXCEPT ![l] = Mul(@, growth_factor)]
    /\ UNCHANGED <<lstate, heap, badFree, nextPtr, history>>

\* block_list::allocate(), a block is cached in the free list
AllocateCached(l) ==
    /\ ~impl_empty(free_[l])
    /\ LET pushed == impl_push_other(node, used_[l], free_[l])
       IN  /\ size_' = [size_ EXCEPT ![l] = Add(@, 1)]
           /\ node' = pushed.node
           /\ used_' = [used_ EXCEPT ![l] = pushed.head]
           /\ free_' = [free_ EXCEPT ![l] = pushed.other]
           /\ lastOp' = Op("allocate", l, 0, 0, FALSE, pushed.ret, <<>>)
           /\ underflow' = Underflow(stack_underflow(free_[l]), size_,
                                     "allocate", l)
    /\ UNCHANGED <<lstate, cur_block_size_, heap, badFree, nextPtr,
                   history>>

Allocate(l) ==
    /\ lstate[l] = "live"
    /\ \/ AllocateFresh(l)
       \/ AllocateThrow(l)
       \/ AllocateCached(l)
    /\ UNCHANGED outsideBlockList

\* deallocate() that hands the block back to the upstream allocator
deallocate_impl_release(l, name) ==
    LET block == impl_pop(node, used_[l])
        up    == UpDeallocate(UpState, block.ret.memory, block.ret.size, 1)
    IN  /\ size_' = [size_ EXCEPT ![l] = Sub(@, 1)]
        /\ used_' = [used_ EXCEPT ![l] = block.head]
        /\ heap' = up.heap
        /\ badFree' = up.bad
        /\ node' = Reclaim(node, up.heap)
        /\ lastOp' = Op(name, l, 0, 0, FALSE, NoBlock, up.log)
        /\ underflow' = Underflow(stack_underflow(used_[l]), size_, name, l)
        /\ UNCHANGED <<lstate, free_, cur_block_size_, nextPtr, history>>

\* deallocate() that forgets --size_
deallocate_impl_nocount(l, name) ==
    LET pushed == impl_push_other(node, free_[l], used_[l])
    IN  /\ node' = pushed.node
        /\ free_' = [free_ EXCEPT ![l] = pushed.head]
        /\ used_' = [used_ EXCEPT ![l] = pushed.other]
        /\ lastOp' = Op(name, l, 0, 0, FALSE, pushed.ret, <<>>)
        /\ underflow' = Underflow(stack_underflow(used_[l]), size_, name, l)
        /\ UNCHANGED <<lstate, size_, cur_block_size_, heap, badFree,
                       nextPtr, history>>

\* the state change shared by deallocate() and deallocate(used_to)
deallocate_impl(l, name) ==
    LET pushed == impl_push_other(node, free_[l], used_[l])
    IN  /\ size_' = [size_ EXCEPT ![l] = Sub(@, 1)]
        /\ node' = pushed.node
        /\ free_' = [free_ EXCEPT ![l] = pushed.head]
        /\ used_' = [used_ EXCEPT ![l] = pushed.other]
        /\ lastOp' = Op(name, l, 0, 0, FALSE, pushed.ret, <<>>)
        /\ underflow' = Underflow(stack_underflow(used_[l]), size_, name, l)
        /\ UNCHANGED <<lstate, cur_block_size_, heap, badFree,
                       nextPtr, history>>

\* block_list::deallocate(); a block is in use (the "stack underflow"
\* assertion of push(other) holds)
Deallocate(l) ==
    /\ lstate[l] = "live"
    /\ ~impl_empty(used_[l])
    /\ deallocate_impl(l, "deallocate")
    /\ UNCHANGED outsideBlockList

\* block_list::deallocate(const char* used_to); used_to lies in the top block
DeallocateTo(l) ==
    /\ lstate[l] = "live"
    /\ ~impl_empty(used_[l])
    /\ \E used_to \in {top(l).memory, top(l).memory + top(l).size} :
           deallocate_impl(l, "deallocate")
    /\ UNCHANGED outsideBlockList

\* block_list::deallocate() called while used_ is empty: size_ has been
\* decremented when the assertion of free_.push(used_) fails; the failed
\* assertion ends the program and with it every list
DeallocateUnderflow(l) ==
    /\ lstate[l] = "live"
    /\ stack_underflow(used_[l])
    /\ size_' = [size_ EXCEPT ![l] = Sub(@, 1)]
    /\ underflow' = Underflow(TRUE, size_, "deallocate", l)
    /\ lstate' = [o \in Lists |-> "aborted"]
    /\ UNCHANGED <<used_, free_, cur_block_size_, node, heap,
                   badFree, nextPtr, history, lastOp>>
    /\ UNCHANGED outsideBlockList

\* block_list::top() called while used_ is empty: the assertion of
\* used_.top() fails
TopUnderflow(l) ==
    /\ lstate[l] = "live"
    /\ stack_underflow(used_[l])
    /\ underflow' = Underflow(TRUE, size_, "top", l)
    /\ lstate' = [o \in Lists |-> "aborted"]
    /\ UNCHANGED <<used_, free_, size_, cur_block_size_, node, heap,
                   badFree, nextPtr, history, lastOp>>
    /\ UNCHANGED outsideBlockList

\* the members of a block_list and the node headers, as a value; calls
\* counts the upstream calls made since, ret is what the last call returned
Members(nd, used, free, sz, cur) ==
    [node |-> nd, used |-> used, free |-> free, size |-> sz, cur |-> cur,
     calls |-> 0, ret |-> NoBlock]

\* block_list::deallocate() on such a value, a block being in use
deallocate_on(b) ==
    LET pushed == impl_push_other(b.node, b.free, b.used)
    IN  [b EXCEPT !.size = Sub(@, 1),
                  !.node = pushed.node,
                  !.free = pushed.head,
                  !.used = pushed.other,
                  !.ret = pushed.ret]

\* block_list::allocate() on such a value: with an empty free list the
\* block comes from an upstream call
allocate_on(b) ==
    IF impl_empty(b.free)
    THEN [b EXCEPT !.calls = @ + 1,
                   !.size = Add(@, 1),
                   !.cur = Mul(@, growth_factor),
                   !.ret = NoBlock]
    ELSE LET pushed == impl_push_other(b.node, b.used, b.free)
         IN  [b EXCEPT !.size = Add(@, 1),
                       !.node = pushed.node,
                       !.used = pushed.head,
                       !.free = pushed.other,
                       !.ret = pushed.ret]

\* block_list::shrink_to_fit()
ShrinkToFit(l) ==
    /\ lstate[l] = "live"
    /\ LET up == release_all(UpState, node, free_[l])
       IN  /\ heap' = up.heap
           /\ badFree' = up.bad
           /\ node' = Reclaim(node, up.heap)
           /\ free_' = [free_ EXCEPT ![l] = NULL]
           /\ lastOp' = Op("shrink_to_fit", l, 0, 0, FALSE, NoBlock, up.log)
           /\ underflow' = Underflow(release_all_underflow(node, free_[l]),
                                     size_, "shrink_to_fit", l)
    /\ UNCHANGED <<lstate, used_, size_, cur_block_size_, nextPtr, history>>
    /\ UNCHANGED outsideBlockList

\* block_list::~block_list()
Destroy(l) ==
    /\ lstate[l] = "live"
    /\ LET up == destroy_list(UpState, node, used_[l], free_[l])
       IN  /\ heap' = up.heap
           /\ badFree' = up.bad
           /\ node' = Reclaim(node, up.heap)
           /\ lastOp' = Op("destroy", l, 0, 0, FALSE, NoBlock, up.log)
           /\ underflow' =
                  Underflow(\/ release_all_underflow(node, free_[l])
                            \/ release_all_underflow(node, used_[l]),
                            size_, "destroy", l)
    \* the object is gone: its members hold nothing any more
    /\ lstate' = [lstate EXCEPT ![l] = "dead"]
    /\ used_' = [used_ EXCEPT ![l] = NULL]
    /\ free_' = [free_ EXCEPT ![l] = NULL]
    /\ size_' = [size_ EXCEPT ![l] = 0]
    /\ cur_block_size_' = [cur_block_size_ EXCEPT ![l] = 0]
    /\ initial_block_size' = [initial_block_size EXCEPT ![l] = 0]
    /\ fresh' = [fresh EXCEPT ![l] = 0]
    /\ assigned' = [assigned EXCEPT ![l] = FALSE]
    /\ UNCHANGED nextPtr
    /\ UNCHANGED outsideBlockList

\* a move constructor that forgets other.head_ = nullptr
impl_move_keep(head) == [head |-> head, other |-> head]

\* block_list_impl(block_list_impl&& other): takes the head, empties other
impl_move(head) == [head |-> head, other |-> NULL]

\* a move constructor that forgets other.size_ = 0u
MoveConstruct_keepsize(l, other) ==
    /\ lstate[l] = "unborn"
    /\ lstate[other] = "live"
    /\ lstate' = [lstate EXCEPT ![l] = "live"]
    /\ used_' = [used_ EXCEPT ![l] = impl_move(used_[other]).head,
                              ![other] = impl_move(used_[other]).other]
    /\ free_' = [free_ EXCEPT ![l] = impl_move(free_[other]).head,
                              ![other] = impl_move(free_[other]).other]
    /\ size_' = [size_ EXCEPT ![l] = size_[other]]
    /\ cur_block_size_' =
           [cur_block_size_ EXCEPT ![l] = cur_block_size_[other]]
    /\ initial_block_size' =
           [initial_block_size EXCEPT ![l] = cur_block_size_[other]]
    /\ lastOp' = Op("move_construct", l, other, 0, FALSE, NoBlock, <<>>)
    /\ UNCHANGED <<node, heap, badFree, nextPtr, fresh, assigned, underflow>>
    /\ UNCHANGED outsideBlockList

\* block_list(block_list&& other): the allocator, both lists, size_ and
\* cur_block_size_ are taken over; other's lists and size_ are emptied
MoveConstruct(l, other) ==
    /\ lstate[l] = "unborn"
    /\ lstate[other] = "live"
    /\ lstate' = [lstate EXCEPT ![l] = "live"]
    /\ used_' = [used_ EXCEPT ![l] = impl_move(used_[other]).head,
                              ![other] = impl_move(used_[other]).other]
    /\ free_' = [free_ EXCEPT ![l] = impl_move(free_[other]).head,
                              ![other] = impl_move(free_[other]).other]
    /\ size_' = [size_ EXCEPT ![l] = size_[other], ![other] = 0]
    /\ cur_block_size_' =
           [cur_block_size_ EXCEPT ![l] = cur_block_size_[other]]
    /\ initial_block_size' =
           [initial_block_size EXCEPT ![l] = cur_block_size_[other]]
    /\ lastOp' = Op("move_construct", l, other, 0, FALSE, NoBlock, <<>>)
    /\ UNCHANGED <<node, heap, badFree, nextPtr, fresh, assigned, underflow>>
    /\ UNCHANGED outsideBlockList

\* block_list::operator=(block_list&& other):
\*   block_list tmp(move(other)); swap of the allocator, used_, free_ and
\*   size_ with tmp; swap of cur_block_size_ with other; ~tmp
MoveAssign(l, other) ==
    /\ lstate[l] = "live"
    /\ lstate[other] = "live"
    /\ LET \* block_list tmp(detail::move(other))
           tmp   == [used |-> impl_move(used_[other]).head,
                     free |-> impl_move(free_[other]).head,
                     size |-> size_[other],
                     cur |-> cur_block_size_[other]]
           used1 == [used_ EXCEPT ![other] = impl_move(used_[other]).other]
           free1 == [free_ EXCEPT ![other] = impl_move(free_[other]).other]
           size1 == [size_ EXCEPT ![other] = 0]
           \* the swaps of used_, free_ and size_ with tmp
           tmp2  == [used |-> used1[l], free |-> free1[l],
                     size |-> size1[l], cur |-> tmp.cur]
           \* ~block_list() of tmp
           up    == destroy_list(UpState, node, tmp2.used, tmp2.free)
       IN  /\ used_' = [used1 EXCEPT ![l] = tmp.used]
           /\ free_' = [free1 EXCEPT ![l] = tmp.free]
           /\ size_' = [size1 EXCEPT ![l] = tmp.size]
           \* adl_swap(cur_block_size_, other.cur_block_size_)
           /\ cur_block_size_' =
                  [cur_block_size_ EXCEPT ![l] = cur_block_size_[other],
                                          ![other] = cur_block_size_[l]]
           /\ heap' = up.heap
           /\ badFree' = up.bad
           /\ node' = Reclaim(node, up.heap)
           /\ lastOp' = Op("move_assign", l, other, 0, FALSE, NoBlock, up.log)
           /\ underflow' =
                  Underflow(\/ release_all_underflow(node, tmp2.free)
                            \/ release_all_underflow(node, tmp2.used),
                            size_, "move_assign", l)
    /\ assigned' = IF l = other THEN assigned
                   ELSE [assigned EXCEPT ![l] = TRUE, ![other] = TRUE]
    /\ UNCHANGED <<lstate, nextPtr, initial_block_size, fresh>>
    /\ UNCHANGED outsideBlockList

\* ------------------------------------------------- allocator_storage
\* a selection that always takes the requested Mutex
mutex_for_requested(w) == "Mutex"

\* detail::mutex_for<RawAllocator, Mutex>: stateless allocators get no_mutex
mutex_for(w) == IF is_stateful[w] THEN "Mutex" ELSE "no_mutex"

\* Mutex::lock() returns only once no thread owns the mutex;
\* mutex_storage<no_mutex>::lock() always returns
can_lock(m, w) == mutex_for(w) = "no_mutex" \/ m[w] = NULL

\* mutex_storage::lock() const
mutex_lock(m, w, t) ==
    IF mutex_for(w) = "no_mutex" THEN m ELSE [m EXCEPT ![w] = t]

\* mutex_storage::unlock() const
mutex_unlock(m, w) ==
    IF mutex_for(w) = "no_mutex" THEN m ELSE [m EXCEPT ![w] = NULL]

NoCall == [w |-> 0, op |-> "none", via |-> "none"]
NoProxy == [st |-> "unborn", mutex_ |-> NULL, alloc_ |-> NULL, thread |-> 0]

\* a thread calls one of allocate_node .. max_alignment of wrapper w
StartCall(t, w, op) ==
    /\ pc[t] = "idle"
    /\ w \in born
    /\ pc' = [pc EXCEPT ![t] = "enter"]
    /\ call' = [call EXCEPT ![t] = [w |-> w, op |-> op, via |-> "storage"]]
    /\ UNCHANGED <<mutex_, proxy>>
    /\ UNCHANGED outsideStorage

\* std::lock_guard<actual_mutex> lock(*this) that never waits
Acquire_nowait(t) ==
    /\ pc[t] = "enter"
    /\ call[t].op \in CallOps
    /\ mutex_' = mutex_lock(mutex_, call[t].w, t)
    /\ pc' = [pc EXCEPT ![t] = "inside"]
    /\ UNCHANGED <<call, proxy>>
    /\ UNCHANGED outsideStorage

\* std::lock_guard<actual_mutex> lock(*this); auto&& alloc = get_allocator();
\* traits::op(alloc, ...) is entered
Acquire(t) ==
    /\ pc[t] = "enter"
    /\ call[t].op \in CallOps
    /\ can_lock(mutex_, call[t].w)
    /\ mutex_' = mutex_lock(mutex_, call[t].w, t)
    /\ pc' = [pc EXCEPT ![t] = "inside"]
    /\ UNCHANGED <<call, proxy>>
    /\ UNCHANGED outsideStorage

\* the stored allocator's operation returns or raises
Finish(t, threw) ==
    /\ pc[t] = "inside"
    /\ call[t].via = "storage"
    /\ threw => call[t].op \in MayThrow
    /\ pc' = [pc EXCEPT ![t] = IF threw THEN "throwing" ELSE "returning"]
    /\ UNCHANGED <<call, mutex_, proxy>>
    /\ UNCHANGED outsideStorage

\* a lock_guard whose destructor runs only on the normal path
Release_noraise(t) ==
    /\ pc[t] \in {"returning", "throwing"}
    /\ mutex_' = IF pc[t] = "throwing" THEN mutex_
                 ELSE mutex_unlock(mutex_, call[t].w)
    /\ pc' = [pc EXCEPT ![t] = "idle"]
    /\ call' = [call EXCEPT ![t] = NoCall]
    /\ UNCHANGED proxy
    /\ UNCHANGED outsideStorage

\* ~lock_guard(): the call ends, by return or by the error passing through
Release(t) ==
    /\ pc[t] \in {"returning", "throwing"}
    /\ mutex_' = mutex_unlock(mutex_, call[t].w)
    /\ pc' = [pc EXCEPT ![t] = "idle"]
    /\ call' = [call EXCEPT ![t] = NoCall]
    /\ UNCHANGED proxy
    /\ UNCHANGED outsideStorage

\* a thread that holds no proxy calls lock() of wrapper w
StartLock(t, w) ==
    /\ pc[t] = "idle"
    /\ w \in born
    /\ \A p \in Proxies : local_of[p] = t => proxy[p].st = "unborn"
    /\ pc' = [pc EXCEPT ![t] = "enter"]
    /\ call' = [call EXCEPT ![t] = [w |-> w, op |-> "lock", via |-> "storage"]]
    /\ UNCHANGED <<mutex_, proxy>>
    /\ UNCHANGED outsideStorage

\* locked_allocator(Alloc& alloc, Mutex& m): mutex_(&m), alloc_(&alloc),
\* mutex_->lock(); the proxy p is what lock() returns
LockProxy(t, p) ==
    /\ pc[t] = "enter"
    /\ call[t].op = "lock"
    /\ p = lock_result[t] /\ proxy[p].st = "unborn"
    /\ can_lock(mutex_, call[t].w)
    /\ mutex_' = mutex_lock(mutex_, call[t].w, t)
    /\ proxy' = [proxy EXCEPT ![p] = [st |-> "live", mutex_ |-> call[t].w,
                                      alloc_ |-> stored[call[t].w],
                                      thread |-> t]]
    /\ pc' = [pc EXCEPT ![t] = "idle"]
    /\ call' = [call EXCEPT ![t] = NoCall]
    /\ UNCHANGED outsideStorage

\* a move constructor that leaves other.mutex_ in place
MoveProxy_keep(t, p, q) ==
    /\ pc[t] = "idle"
    /\ proxy[p].st = "live" /\ proxy[p].thread = t
    /\ proxy[p].mutex_ # NULL
    /\ local_of[q] = t /\ proxy[q].st = "unborn"
    /\ proxy' = [proxy EXCEPT ![q] = proxy[p]]
    /\ UNCHANGED <<pc, call, mutex_>>
    /\ UNCHANGED outsideStorage

\* locked_allocator(locked_allocator&& other), other holding the lock:
\* takes mutex_ and alloc_, other.mutex_ = nullptr, other.alloc_ = nullptr
MoveProxy(t, p, q) ==
    /\ pc[t] = "idle"
    /\ proxy[p].st = "live" /\ proxy[p].thread = t
    /\ proxy[p].mutex_ # NULL
    /\ local_of[q] = t /\ proxy[q].st = "unborn"
    /\ proxy' = [proxy EXCEPT ![q] = proxy[p],
                              ![p] = [@ EXCEPT !.mutex_ = NULL,
                                               !.alloc_ = NULL]]
    /\ UNCHANGED <<pc, call, mutex_>>
    /\ UNCHANGED outsideStorage

\* ~locked_allocator(): if (mutex_) mutex_->unlock()
DestroyProxy(t, p) ==
    /\ pc[t] = "idle"
    /\ proxy[p].st = "live" /\ proxy[p].thread = t
    /\ mutex_' = IF proxy[p].mutex_ # NULL
                 THEN mutex_unlock(mutex_, proxy[p].mutex_)
                 ELSE mutex_
    /\ proxy' = [proxy EXCEPT ![p] = NoProxy]
    /\ UNCHANGED <<pc, call>>
    /\ UNCHANGED outsideStorage

\* operator->() / operator*() of a proxy that was not moved from, and an
\* operation of the allocator begun through it
ProxyCall(t, p, op) ==
    /\ pc[t] = "idle"
    /\ proxy[p].st = "live" /\ proxy[p].thread = t
    /\ proxy[p].alloc_ # NULL
    /\ pc' = [pc EXCEPT ![t] = "inside"]
    /\ call' = [call EXCEPT ![t] = [w |-> proxy[p].mutex_, op |-> op,
                                    via |-> "proxy"]]
    /\ UNCHANGED <<mutex_, proxy>>
    /\ UNCHANGED outsideStorage

\* the operation begun through a proxy returns or raises
ProxyFinish(t, threw) ==
    /\ pc[t] = "inside"
    /\ call[t].via = "proxy"
    /\ threw => call[t].op \in MayThrow
    /\ pc' = [pc EXCEPT ![t] = "idle"]
    /\ call' = [call EXCEPT ![t] = NoCall]
    /\ UNCHANGED <<mutex_, proxy>>
    /\ UNCHANGED outsideStorage

StorageInit ==
    /\ pc = [t \in Threads |-> "idle"]
    /\ call = [t \in Threads |-> NoCall]
    /\ mutex_ = [w \in Wrappers |-> NULL]
    /\ proxy = [p \in Proxies |-> NoProxy]

\* -------------------------------------- locking a mutex already owned
\* the thread is about to lock a real mutex that it owns itself, through a
\* live locked_allocator.  For std::mutex this has undefined behaviour: an
\* implementation never returns from lock() (no step of the thread), or
\* lock() raises std::system_error.
owner_locks(t) ==
    /\ pc[t] = "enter"
    /\ mutex_for(call[t].w) = "Mutex"
    /\ mutex_[call[t].w] = t

\* a second lock() while the thread holds a live proxy; the result goes
\* into the thread's free locked_allocator object
StartLockAgain(t, w) ==
    /\ pc[t] = "idle"
    /\ w \in born
    /\ \E p \in Proxies : local_of[p] = t /\ proxy[p].st = "live"
    /\ proxy[lock_result[t]].st = "unborn"
    /\ pc' = [pc EXCEPT ![t] = "enter"]
    /\ call' = [call EXCEPT ![t] = [w |-> w, op |-> "lock", via |-> "storage"]]
    /\ UNCHANGED <<mutex_, proxy>>
    /\ UNCHANGED outsideStorage

\* a mutex that lets its owner lock it once more
OwnerLockRaises_enter(t) ==
    /\ owner_locks(t)
    /\ call[t].op \in MayThrow
    /\ pc' = [pc EXCEPT ![t] = "inside"]
    /\ UNCHANGED <<call, mutex_, proxy>>
    /\ UNCHANGED outsideStorage

\* std::lock_guard<actual_mutex> lock(*this) raises in an operation that is
\* not noexcept: the error reaches the caller, the stored allocator was not
\* entered and the mutex stays with the proxy
OwnerLockRaises(t) ==
    /\ owner_locks(t)
    /\ call[t].op \in MayThrow
    /\ pc' = [pc EXCEPT ![t] = "idle"]
    /\ call' = [call EXCEPT ![t] = NoCall]
    /\ UNCHANGED <<mutex_, proxy>>
    /\ UNCHANGED outsideStorage

\* the same in deallocate_node, deallocate_array and lock(), which are
\* noexcept: std::terminate() ends every thread
OwnerLockTerminates(t) ==
    /\ owner_locks(t)
    /\ call[t].op \notin MayThrow
    /\ pc' = [u \in Threads |-> "terminated"]
    /\ UNCHANGED <<call, mutex_, proxy>>
    /\ UNCHANGED outsideStorage

\* ------------------------------- copying and moving allocator_storage
\* what the operations on whole allocator_storage objects leave alone
outsideCopy == <<blockVars, referenceVars, handlerVars, policyVars, newVars,
                 raceVars>>

NoCopy == [op |-> "none", src |-> 0, dst |-> 0, n |-> 0]

\* a copy constructor that takes over the state of the other mutex
mutex_storage_copy_state(m, src, dst) == [m EXCEPT ![dst] = m[src]]

\* mutex_storage(const mutex_storage &) {}: mutex_ is default-initialised,
\* whatever the state of the other object's mutex
mutex_storage_copy(m, src, dst) == [m EXCEPT ![dst] = NULL]

\* mutex_storage& operator=(const mutex_storage &) { return *this; }
mutex_storage_assign(m, src, dst) == m

\* mutex_storage() = default
mutex_storage_default(m, w) == [m EXCEPT ![w] = NULL]

\* no call of another thread is on w and no locked_allocator points at it
unused_by_others(t, w) ==
    /\ \A u \in Threads \ {t} : call[u].w # w
    /\ \A p \in Proxies : proxy[p].mutex_ = w => proxy[p].thread = t

\* two objects of one allocator_storage instantiation: reference storages
\* of the same stateful allocator
same_type(src, dst) ==
    /\ src # dst
    /\ is_stateful[src] /\ is_stateful[dst]
    /\ stored[src] = stored[dst]

Copied(op, src, dst) ==
    [op |-> op, src |-> src, dst |-> dst, n |-> 1 - lastCopy.n]

\* allocator_storage(Alloc &&alloc) : storage_policy(forward<Alloc>(alloc))
StorageConstruct(t, w) ==
    /\ pc[t] = "idle"
    /\ w \notin born
    /\ born' = born \cup {w}
    /\ mutex_' = mutex_storage_default(mutex_, w)
    /\ lastCopy' = Copied("construct", 0, w)
    /\ UNCHANGED <<pc, call, proxy>>
    /\ UNCHANGED outsideCopy

\* allocator_storage(const allocator_storage &) = default
StorageCopy(t, src, dst) ==
    /\ pc[t] = "idle"
    /\ src \in born /\ dst \notin born
    /\ same_type(src, dst)
    /\ born' = born \cup {dst}
    /\ mutex_' = mutex_storage_copy(mutex_, src, dst)
    /\ lastCopy' = Copied("copy", src, dst)
    /\ UNCHANGED <<pc, call, proxy>>
    /\ UNCHANGED outsideCopy

\* allocator_storage(allocator_storage &&other): storage_policy(move(other)),
\* mutex_storage(move(other)); mutex_storage has no move constructor, its
\* copy constructor is taken, and the reference other holds stays valid
StorageMove(t, src, dst) ==
    /\ pc[t] = "idle"
    /\ src \in born /\ dst \notin born
    /\ same_type(src, dst)
    /\ unused_by_others(t, src)
    /\ born' = born \cup {dst}
    /\ mutex_' = mutex_storage_copy(mutex_, src, dst)
    /\ lastCopy' = Copied("move", src, dst)
    /\ UNCHANGED <<pc, call, proxy>>
    /\ UNCHANGED outsideCopy

\* allocator_storage& operator=(const allocator_storage &) = default
StorageCopyAssign(t, src, dst) ==
    /\ pc[t] = "idle"
    /\ src \in born /\ dst \in born
    /\ same_type(src, dst)
    /\ unused_by_others(t, dst)
    /\ mutex_' = mutex_storage_assign(mutex_, src, dst)
    /\ lastCopy' = Copied("copy_assign", src, dst)
    /\ UNCHANGED <<pc, call, proxy, born>>
    /\ UNCHANGED outsideCopy

\* allocator_storage& operator=(allocator_storage &&other):
\* storage_policy::operator=(move(other)); mutex_storage::operator=(move(other))
StorageMoveAssign(t, src, dst) ==
    /\ pc[t] = "idle"
    /\ src \in born /\ dst \in born
    /\ same_type(src, dst)
    /\ unused_by_others(t, src) /\ unused_by_others(t, dst)
    /\ mutex_' = mutex_storage_assign(mutex_, src, dst)
    /\ lastCopy' = Copied("move_assign", src, dst)
    /\ UNCHANGED <<pc, call, proxy, born>>
    /\ UNCHANGED outsideCopy

\* ~allocator_storage() of an object nothing uses and nothing has locked
StorageDestroy(t, w) ==
    /\ pc[t] = "idle"
    /\ w \in born
    /\ mutex_[w] = NULL
    /\ \A u \in Threads : call[u].w # w
    /\ \A p \in Proxies : proxy[p].mutex_ # w
    /\ born' = born \ {w}
    /\ UNCHANGED <<pc, call, mutex_, proxy, lastCopy>>
    /\ UNCHANGED outsideCopy

CopyInit ==
    /\ born = Wrappers
    /\ lastCopy = NoCopy

\* ------------------------------------------------- reference_storage
NoRef == [st |-> "unborn", erased |-> FALSE, stateful |-> FALSE,
          alloc_ |-> NULL, from |-> NULL]
NoRec == [kind |-> "none", count |-> 0, size |-> 0]
\* an operation of allocator_traits with the arguments it is passed; count
\* is 0 for the operations that take none
Reached(op, count, sz, ptr) ==
    [op |-> op, count |-> count, size |-> sz, ptr |-> ptr]

\* a constructor, assignment or destructor of the reference r: nothing is
\* called on an allocator
RefOp(r, op) ==
    [r |-> r, op |-> op, count |-> 0, size |-> 0, ptr |-> 0,
     target |-> [obj |-> NULL, temporary |-> FALSE],
     reached |-> Reached("none", 0, 0, 0), ret |-> 0, threw |-> FALSE,
     freed |-> NoRec]

\* reference_storage_impl<RawAllocator, Stateful>(allocator): alloc_(&allocator)
\* for a stateful allocator, nothing for a stateless one
reference_storage_impl(isStateful, a) == IF isStateful THEN a ELSE NULL

\* reference_storage_impl::get_allocator(): *alloc_ for a stateful allocator,
\* a value-initialised temporary for a stateless one
get_allocator(rec) ==
    IF rec.stateful THEN [obj |-> rec.alloc_, temporary |-> FALSE]
    ELSE [obj |-> NULL, temporary |-> TRUE]

\* basic_allocator::clone(storage): ::new(storage) basic_allocator(get())
clone(rec) ==
    [rec EXCEPT !.alloc_ = reference_storage_impl(rec.stateful,
                                                  get_allocator(rec).obj)]

\* a copy that does not take over the pointer
copy_ref_reset(rec) == [rec EXCEPT !.alloc_ = NULL]

\* reference_storage(const reference_storage&) and operator=: defaulted for
\* reference_storage<RawAllocator>, other.get_allocator().clone(&storage_)
\* for reference_storage<any_allocator>
copy_ref(rec) == IF rec.erased THEN clone(rec) ELSE rec

\* an allocate_impl / deallocate_impl that ignores count
allocate_impl_array(name, count, sz, ptr) ==
    Reached(name \o "_array", count, sz, ptr)

\* a deallocate_impl that ignores count next to an allocate_impl that does
\* not
allocate_impl_uneven(name, count, sz, ptr) ==
    IF count = 1 /\ name = "allocate" THEN Reached(name \o "_node", 0, sz, ptr)
    ELSE Reached(name \o "_array", count, sz, ptr)

\* basic_allocator::allocate_impl / deallocate_impl: count 1 means node
allocate_impl(name, count, sz, ptr) ==
    IF count = 1 THEN Reached(name \o "_node", 0, sz, ptr)
    ELSE Reached(name \o "_array", count, sz, ptr)

\* the allocator_traits operation a call of op through a reference ends in:
\* allocator_storage forwards to the same-named operation of its
\* allocator_type, which for reference_storage<any_allocator> is
\* base_allocator, forwarding to allocate_impl / deallocate_impl / max
dispatch(erased, op, count, sz, ptr) ==
    IF ~erased THEN
        Reached(op, IF op \in {"allocate_array", "deallocate_array"}
                    THEN count ELSE 0, sz, ptr)
    ELSE IF op = "allocate_node" THEN allocate_impl("allocate", 1, sz, ptr)
    ELSE IF op = "deallocate_node" THEN
        allocate_impl("deallocate", 1, sz, ptr)
    ELSE IF op = "allocate_array" THEN
        allocate_impl("allocate", count, sz, ptr)
    ELSE IF op = "deallocate_array" THEN
        allocate_impl("deallocate", count, sz, ptr)
    ELSE Reached(op, 0, 0, 0)

\* the allocator whose state an operation on get_allocator()'s result acts
\* on: the referenced object, or the state shared by all instances of the
\* stateless type
state_of(target) == IF target.temporary THEN 3 ELSE target.obj

\* the referenced RawAllocator carrying out an allocator_traits operation:
\* the memory it has handed out afterwards, what it returns and whether it
\* raises
traits_call(out, reached) ==
    LET free == {p \in Slots : out[p] = NoRec}
        p    == CHOOSE q \in free : \A o \in free : q <= o
    IN  IF reached.op \in {"allocate_node", "allocate_array"} THEN
            IF free = {} THEN [out |-> out, ret |-> 0, threw |-> TRUE]
            ELSE [out |-> [out EXCEPT ![p] =
                              [kind |-> reached.op, count |-> reached.count,
                               size |-> reached.size]],
                  ret |-> p, threw |-> FALSE]
        ELSE IF reached.op \in {"deallocate_node", "deallocate_array"} THEN
            [out |-> [out EXCEPT ![reached.ptr] = NoRec],
             ret |-> 0, threw |-> FALSE]
        ELSE [out |-> out,
              ret |-> IF reached.op = "max_node_size" THEN max_node
                      ELSE IF reached.op = "max_array_size" THEN max_array
                      ELSE max_align,
              threw |-> FALSE]

\* reference_storage(allocator_type& alloc) / reference_storage(const
\* allocator_type& alloc), and the constructors of
\* reference_storage<any_allocator> placing a basic_allocator<RawAllocator>
MakeRef(r, a, erased) ==
    /\ ref[r].st = "unborn"
    /\ ref' = [ref EXCEPT ![r] =
                  [st |-> "live", erased |-> erased, stateful |-> stateful[a],
                   alloc_ |-> reference_storage_impl(stateful[a], a),
                   from |-> a]]
    /\ lastRefOp' = RefOp(r, "construct")
    /\ UNCHANGED allocated
    /\ UNCHANGED outsideReference

\* reference_storage(const reference_storage& other)
CopyRef(r, other) ==
    /\ ref[r].st = "unborn"
    /\ ref[other].st = "live"
    /\ ref' = [ref EXCEPT ![r] = copy_ref(ref[other])]
    /\ lastRefOp' = RefOp(r, "copy")
    /\ UNCHANGED allocated
    /\ UNCHANGED outsideReference

\* reference_storage& operator=(const reference_storage& other), both of the
\* same reference_storage type
CopyAssign(r, other) ==
    /\ ref[r].st = "live"
    /\ ref[other].st = "live"
    /\ ref[r].erased = ref[other].erased
    /\ ~ref[r].erased => ref[r].stateful = ref[other].stateful
    /\ ref' = [ref EXCEPT ![r] = copy_ref(ref[other])]
    /\ lastRefOp' = RefOp(r, "assign")
    /\ UNCHANGED allocated
    /\ UNCHANGED outsideReference

\* ~reference_storage() = default
DestroyRef(r) ==
    /\ ref[r].st = "live"
    /\ ref' = [ref EXCEPT ![r] = NoRef]
    /\ lastRefOp' = RefOp(r, "destroy")
    /\ UNCHANGED allocated
    /\ UNCHANGED outsideReference

\* one operation of the uniform set made through the reference r
RefCall(r, op, count, sz, ptr) ==
    /\ ref[r].st = "live"
    /\ LET target  == get_allocator(ref[r])
           a       == state_of(target)
           reached == dispatch(ref[r].erased, op, count, sz, ptr)
           done    == traits_call(allocated[a], reached)
       IN  /\ op \in {"deallocate_node", "deallocate_array"} =>
                  ptr \in Slots /\ allocated[a][ptr] # NoRec
           /\ op \notin {"deallocate_node", "deallocate_array"} => ptr = 0
           /\ allocated' = [allocated EXCEPT ![a] = done.out]
           /\ lastRefOp' = [r |-> r, op |-> op, count |-> count,
                            size |-> sz, ptr |-> ptr, target |-> target,
                            reached |-> reached, ret |-> done.ret,
                            threw |-> done.threw,
                            freed |-> IF ptr = 0 THEN NoRec
                                      ELSE allocated[a][ptr]]
    /\ UNCHANGED ref
    /\ UNCHANGED outsideReference

ReferenceInit ==
    /\ ref = [r \in Refs |-> NoRef]
    /\ allocated = [a \in Allocators |-> [p \in Slots |-> NoRec]]
    /\ lastRefOp = RefOp(0, "none")

\* ------------------------------------------------ debugging handlers
\* default_leak_handler, default_invalid_ptr_handler and
\* default_buffer_overflow_handler
default_handler(k) ==
    IF k = "leak" THEN "default_leak_handler"
    ELSE IF k = "invalid_pointer" THEN "default_invalid_ptr_handler"
    ELSE "default_buffer_overflow_handler"

\* an exchange that stores the argument as it is
exchange_raw(cur, k, h) == [stored |-> h, prev |-> cur]

\* an exchange that returns what it has stored
exchange_new(cur, k, h) ==
    [stored |-> IF h # nullptr THEN h ELSE default_handler(k),
     prev |-> IF h # nullptr THEN h ELSE default_handler(k)]

\* a replacement that loses the replaced handler and returns the default
exchange_lost(cur, k, h) ==
    [stored |-> IF h # nullptr THEN h ELSE default_handler(k),
     prev |-> default_handler(k)]

\* leak_h.exchange(h ? h : default_leak_handler), and the same for
\* invalid_ptr_h and buffer_overflow_h
exchange(cur, k, h) ==
    [stored |-> IF h # nullptr THEN h ELSE default_handler(k), prev |-> cur]

\* default handlers that all return
handler_returns_always(k, h) == TRUE

\* whether the handler h of kind k returns to its caller:
\* default_invalid_ptr_handler and default_buffer_overflow_handler end in
\* std::abort(), default_leak_handler only prints; a handler of the program
\* is taken to return
handler_returns(k, h) ==
    ~(h = default_handler(k) /\ k \in {"invalid_pointer", "buffer_overflow"})

\* what can be passed to and returned by the set function of kind k
HandlersOf(k) == UserHandlers \cup {default_handler(k), nullptr}

\* the ledger after a set call of kind k that was passed h and returned
\* prev: passing nullptr counts as installing the default handler
Booked(led, k, h, prev) ==
    LET installed == IF h # nullptr THEN h ELSE default_handler(k)
    IN  [led EXCEPT ![k] =
            [g \in HandlersOf(k) |->
                @[g] + (IF g = installed THEN 1 ELSE 0)
                     - (IF g = prev THEN 1 ELSE 0)]]

NoHCall == [pc |-> "idle", op |-> "none", kind |-> "none", val |-> nullptr,
            ret |-> nullptr]

\* a thread calls set_leak_handler(h), set_invalid_pointer_handler(h) or
\* set_buffer_overflow_handler(h)
SetCall(t, k, h) ==
    /\ ~aborted
    /\ hcall[t].pc = "idle"
    /\ hcall' = [hcall EXCEPT ![t] = [pc |-> "set", op |-> "set", kind |-> k,
                                      val |-> h, ret |-> nullptr]]
    /\ UNCHANGED <<handler_h, aborted, ledger>>
    /\ UNCHANGED outsideHandlers

\* the atomic exchange of the set function and its return
Exchange(t) ==
    /\ ~aborted
    /\ hcall[t].pc = "set"
    /\ LET x == exchange(handler_h[hcall[t].kind], hcall[t].kind,
                         hcall[t].val)
       IN  /\ handler_h' = [handler_h EXCEPT ![hcall[t].kind] = x.stored]
           /\ hcall' = [hcall EXCEPT ![t].pc = "idle", ![t].ret = x.prev]
           /\ ledger' = Booked(ledger, hcall[t].kind, hcall[t].val, x.prev)
    /\ UNCHANGED aborted
    /\ UNCHANGED outsideHandlers

\* get_leak_handler(), get_invalid_pointer_handler() or
\* get_buffer_overflow_handler(): the atomic load
GetHandler(t, k) ==
    /\ ~aborted
    /\ hcall[t].pc = "idle"
    /\ hcall' = [hcall EXCEPT ![t] = [pc |-> "loaded", op |-> "get",
                                      kind |-> k, val |-> nullptr,
                                      ret |-> handler_h[k]]]
    /\ UNCHANGED <<handler_h, aborted, ledger>>
    /\ UNCHANGED outsideHandlers

\* the handler a thread got is invoked, or the thread drops it
Invoke(t, run) ==
    /\ ~aborted
    /\ hcall[t].pc = "loaded"
    /\ IF run /\ ~handler_returns(hcall[t].kind, hcall[t].ret)
       THEN /\ aborted' = TRUE
            /\ hcall' = [hcall EXCEPT ![t].pc = "aborting",
                                      ![t].op = "invoke"]
       ELSE /\ aborted' = aborted
            /\ hcall' = [hcall EXCEPT ![t].pc = "idle",
                                      ![t].op = IF run THEN "invoke"
                                                ELSE "get"]
    /\ UNCHANGED <<handler_h, ledger>>
    /\ UNCHANGED outsideHandlers

\* std::atomic<leak_handler> leak_h(default_leak_handler), and the same for
\* invalid_ptr_h and buffer_overflow_h
HandlerInit ==
    /\ handler_h = [k \in Kinds |-> default_handler(k)]
    /\ hcall = [t \in Threads |-> NoHCall]
    /\ aborted = FALSE
    /\ ledger = [k \in Kinds |-> [g \in HandlersOf(k) |-> 0]]

\* ------------------------------------------------ log2_access_policy
\* a & b on std::size_t
RECURSIVE BitAnd(_, _)
BitAnd(a, b) ==
    IF a = 0 \/ b = 0 THEN 0
    ELSE 2 * BitAnd(a \div 2, b \div 2) + (a % 2) * (b % 2)

\* a test that takes no number for a power of two
is_power_of_two_never(no) == FALSE

\* is_power_of_two(no): (no & (no - 1)) == 0
is_power_of_two(no) == BitAnd(no, Sub(no, 1)) = 0

\* __builtin_clzl(no), no # 0: the number of zero bits above the highest
\* one bit
RECURSIVE builtin_clz_from(_, _)
builtin_clz_from(no, bit) ==
    IF no >= 2 ^ bit THEN SizeBits - 1 - bit
    ELSE builtin_clz_from(no, bit - 1)

builtin_clz(no) == builtin_clz_from(no, SizeBits - 1)

\* ilog2 under __GNUC__:
\* sizeof(no) * CHAR_BIT - unsigned(__builtin_clzl(no)) - unsigned(is_power_of_two(no))
ilog2_clz(no) ==
    Sub(Sub(SizeBits, builtin_clz(no)),
        IF is_power_of_two(no) THEN 1 ELSE 0)

\* while (no >>= 1) ++result;
RECURSIVE ilog2_while(_, _)
ilog2_while(no, result) ==
    LET shifted == no \div 2
    IN  IF shifted # 0 THEN ilog2_while(shifted, Add(result, 1)) ELSE result

\* ilog2 without __GNUC__: result = is_power_of_two(no) ? 0u : 1u, then the
\* loop
ilog2_loop(no) == ilog2_while(no, IF is_power_of_two(no) THEN 0 ELSE 1)

ilog2(build, no) == IF build = "clz" THEN ilog2_clz(no) ELSE ilog2_loop(no)

\* log2_access_policy::index_from_size(size), size not zero
index_from_size(build, sz) == ilog2(build, sz)

Log2Call(build, fn, arg, ret) ==
    [build |-> build, fn |-> fn, arg |-> arg, ret |-> ret]

NoLog2Call == Log2Call("none", "none", 0, 0)

\* a call of log2_access_policy::index_from_size
IndexFromSize(build, sz) ==
    /\ sz # 0
    /\ log2_call' = Log2Call(build, "index_from_size", sz,
                             index_from_size(build, sz))
    /\ log2_prev' = NoLog2Call
    /\ UNCHANGED outsidePolicy

\* the conversion of an int to std::size_t: modulo 2^SizeBits, a negative
\* value is sign-extended
int_to_size_t(i) == i % SizeMod

\* INT_MIN
INT_MIN == 0 - (IntMod \div 2)

\* 1 << index, the literal 1 being an int and index a std::size_t: an int.
\* The result is 2^index when an int can hold it.  When it cannot
\* (index == IntBits - 1) the shift overflows the int, and with
\* index >= IntBits the shift count is not less than the width of int: the
\* behaviour is undefined; a build yields the sign bit in the first case,
\* and in the second the shift by the count modulo the width (x86) or 0
\* (ARM)
shl_int(index) ==
    IF index < IntBits - 1 THEN {2 ^ index}
    ELSE IF index = IntBits - 1 THEN {INT_MIN}
    ELSE {0} \cup (IF index % IntBits = IntBits - 1 THEN {INT_MIN}
                    ELSE {2 ^ (index % IntBits)})

\* log2_access_policy::size_from_index(index): return 1 << index; the values
\* a build can return
size_from_index(index) == {int_to_size_t(i) : i \in shl_int(index)}

\* a call of log2_access_policy::size_from_index with the index of a bucket;
\* asked is the index_from_size call the index was taken from, if any
SizeFromIndex(index, asked) ==
    /\ \E ret \in size_from_index(index) :
           log2_call' = Log2Call(asked.build, "size_from_index", index, ret)
    /\ log2_prev' = asked
    /\ UNCHANGED outsidePolicy

\* size_from_index for any bucket index_from_size can name
SizeOfAnyBucket == \E index \in 0 .. SizeBits : SizeFromIndex(index, NoLog2Call)

\* size_from_index for the bucket index_from_size has just returned, or
\* for the bucket below it
SizeOfBucket ==
    /\ log2_call.fn = "index_from_size"
    /\ \E index \in {log2_call.ret, log2_call.ret - 1} :
           /\ index >= 0
           /\ SizeFromIndex(index, log2_call)

\* the node size of a bucket routed back: index_from_size(size_from_index(
\* index)); a node size of 0, for which ilog2 has no defined result, is not
\* routed
RoundTrip(build, index) ==
    /\ \E sz \in size_from_index(index) :
           /\ sz # 0
           /\ log2_prev' = Log2Call(build, "size_from_index", index, sz)
           /\ log2_call' = Log2Call(build, "index_from_size", sz,
                                    index_from_size(build, sz))
    /\ UNCHANGED outsidePolicy

PolicyInit == log2_call = NoLog2Call /\ log2_prev = NoLog2Call

\* ------------------------------------------- new_allocator and error.hpp
\* a call of one of the handlers, with its arguments after the info
HandlerCall(kind, info, a, b) == [kind |-> kind, info |-> info, a |-> a, b |-> b]

\* the exception an operation leaves with
Raised(what, info, a, b) == [what |-> what, info |-> info, a |-> a, b |-> b]
NoRaise == Raised("none", "none", 0, 0)

\* an operation has returned ret or raised: the calls of the low-level
\* allocation function and of the handlers it made
Done(op, info, a, b, ret, raised, tries, handlers) ==
    [op |-> op, info |-> info, a |-> a, b |-> b, ret |-> ret,
     raised |-> raised, tries |-> tries, handlers |-> handlers]

NoRequest == [size |-> 0, tries |-> 0, new_handlers |-> 0]

\* out_of_memory(info, amount): the constructor calls the out_of_memory
\* handler; the exception is thrown if the handler returns, a handler
\* that throws replaces it
out_of_memory(info, amount, handlerReturns) ==
    [handlers |-> <<HandlerCall("out_of_memory", info, amount, 0)>>,
     raised   |-> IF handlerReturns
                  THEN Raised("out_of_memory", info, amount, 0)
                  ELSE Raised("handler", info, 0, 0)]

\* bad_allocation_size(info, passed, supported): the constructor calls the
\* bad_allocation_size handler and keeps the three values
bad_allocation_size(info, passed, supported, handlerReturns) ==
    [handlers |-> <<HandlerCall("bad_allocation_size", info, passed,
                                supported)>>,
     raised   |-> IF handlerReturns
                  THEN Raised("bad_allocation_size", info, passed, supported)
                  ELSE Raised("handler", info, 0, 0)]

\* a check that also refuses the supported size itself
check_allocation_size_strict(passed, supported, info, handlerReturns) ==
    IF passed >= supported
    THEN bad_allocation_size(info, passed, supported, handlerReturns)
    ELSE [handlers |-> <<>>, raised |-> NoRaise]

\* detail::check_allocation_size(passed, supported, info)
check_allocation_size(passed, supported, info, handlerReturns) ==
    IF passed > supported
    THEN bad_allocation_size(info, passed, supported, handlerReturns)
    ELSE [handlers |-> <<>>, raised |-> NoRaise]

\* a call of detail::check_allocation_size
CheckAllocationSize(passed, supported, info, handlerReturns) ==
    /\ npc = "idle"
    /\ LET checked == check_allocation_size(passed, supported, info,
                                            handlerReturns)
       IN  lastNew' = Done("check_allocation_size", info, passed, supported, NULL,
                           checked.raised, 0, checked.handlers)
    /\ UNCHANGED <<npc, request, new_nodes, alloc_counter, init_counter,
                   new_handler>>
    /\ UNCHANGED outsideNew

\* on_alloc(size)
on_alloc(counter, sz) == Add(counter, sz)

\* on_dealloc(size)
on_dealloc(counter, sz) == Sub(counter, sz)

\* new_allocator::allocate_node(size, alignment) is called: it enters
\* detail::try_allocate
AllocateNode(sz) ==
    /\ npc = "idle"
    /\ npc' = "try"
    /\ request' = [size |-> sz, tries |-> 0, new_handlers |-> 0]
    /\ UNCHANGED <<new_nodes, alloc_counter, init_counter, new_handler,
                   lastNew>>
    /\ UNCHANGED outsideNew

\* try_allocate returning a null pointer after a failed allocation
TryFails_null ==
    /\ npc = "try"
    /\ request.tries < MaxTries
    /\ npc' = "idle"
    /\ request' = NoRequest
    /\ lastNew' = Done("allocate_node", "new_allocator", request.size, 0, NULL, NoRaise,
                       request.tries + 1, <<>>)
    /\ UNCHANGED <<new_nodes, alloc_counter, init_counter, new_handler>>
    /\ UNCHANGED outsideNew

\* try_allocate: alloc_func(size), here ::operator new(size, std::nothrow),
\* returns a null pointer
TryFails ==
    /\ npc = "try"
    /\ request.tries < MaxTries
    /\ npc' = "failed"
    /\ request' = [request EXCEPT !.tries = @ + 1]
    /\ UNCHANGED <<new_nodes, alloc_counter, init_counter, new_handler,
                   lastNew>>
    /\ UNCHANGED outsideNew

\* allocate_node that counts the bytes before the allocation is tried
TrySucceeds_nocount(p) ==
    /\ npc = "try"
    /\ request.tries < MaxTries
    /\ new_nodes[p] = 0
    /\ new_nodes' = [new_nodes EXCEPT ![p] = request.size]
    /\ npc' = "idle"
    /\ request' = NoRequest
    /\ lastNew' = Done("allocate_node", "new_allocator", request.size, 0, p, NoRaise,
                       request.tries + 1, <<>>)
    /\ UNCHANGED <<alloc_counter, init_counter, new_handler>>
    /\ UNCHANGED outsideNew

\* try_allocate: alloc_func(size) returns the memory p, try_allocate
\* returns it; allocate_node counts the bytes and returns the node
TrySucceeds(p) ==
    /\ npc = "try"
    /\ request.tries < MaxTries
    /\ new_nodes[p] = 0
    /\ new_nodes' = [new_nodes EXCEPT ![p] = request.size]
    /\ alloc_counter' = on_alloc(alloc_counter, request.size)
    /\ npc' = "idle"
    /\ request' = NoRequest
    /\ lastNew' = Done("allocate_node", "new_allocator", request.size, 0, p, NoRaise,
                       request.tries + 1, <<>>)
    /\ UNCHANGED <<init_counter, new_handler>>
    /\ UNCHANGED outsideNew

\* a try_allocate that retries once only: after the second failure it
\* raises although a std::new_handler is installed
CallNewHandler_once(effect) ==
    /\ npc = "failed"
    /\ new_handler
    /\ IF request.new_handlers = 0
       THEN /\ npc' = "try"
            /\ request' = [request EXCEPT !.new_handlers = @ + 1]
            /\ UNCHANGED lastNew
       ELSE /\ npc' = "idle"
            /\ request' = NoRequest
            /\ lastNew' = Done("allocate_node", "new_allocator",
                               request.size, 0, NULL,
                               out_of_memory("new_allocator", request.size,
                                             TRUE).raised,
                               request.tries,
                               out_of_memory("new_allocator", request.size,
                                             TRUE).handlers)
    /\ UNCHANGED <<new_nodes, alloc_counter, init_counter, new_handler>>
    /\ UNCHANGED outsideNew

\* try_allocate after a failure, a std::new_handler is installed: the
\* handler is called and the loop continues.  What the handler does is its
\* own business: it may free memory or do nothing ("continue"), remove
\* itself ("uninstall") or throw std::bad_alloc ("throw")
CallNewHandler(effect) ==
    /\ npc = "failed"
    /\ new_handler
    /\ IF effect = "throw"
       THEN /\ npc' = "idle"
            /\ request' = NoRequest
            /\ lastNew' = Done("allocate_node", "new_allocator", request.size, 0, NULL,
                               Raised("new_handler", "new_allocator", 0, 0),
                               request.tries, <<>>)
            /\ UNCHANGED new_handler
       ELSE /\ npc' = "try"
            /\ request' = [request EXCEPT !.new_handlers = @ + 1]
            /\ new_handler' = (effect # "uninstall")
            /\ UNCHANGED lastNew
    /\ UNCHANGED <<new_nodes, alloc_counter, init_counter>>
    /\ UNCHANGED outsideNew

\* try_allocate after a failure, no std::new_handler is installed:
\* FOONATHAN_THROW(out_of_memory(info, size))
ThrowOutOfMemory(handlerReturns) ==
    /\ npc = "failed"
    /\ ~new_handler
    /\ LET thrown == out_of_memory("new_allocator", request.size,
                                   handlerReturns)
       IN  lastNew' = Done("allocate_node", "new_allocator", request.size, 0, NULL,
                           thrown.raised, request.tries, thrown.handlers)
    /\ npc' = "idle"
    /\ request' = NoRequest
    /\ UNCHANGED <<new_nodes, alloc_counter, init_counter, new_handler>>
    /\ UNCHANGED outsideNew

\* new_allocator::deallocate_node(node, size, alignment) for a node
\* allocate_node has returned, with its size
DeallocateNode(p) ==
    /\ npc = "idle"
    /\ new_nodes[p] # 0
    /\ new_nodes' = [new_nodes EXCEPT ![p] = 0]
    /\ alloc_counter' = on_dealloc(alloc_counter, new_nodes[p])
    /\ lastNew' = Done("deallocate_node", "new_allocator", new_nodes[p], p, NULL, NoRaise, 0,
                       <<>>)
    /\ UNCHANGED <<npc, request, init_counter, new_handler>>
    /\ UNCHANGED outsideNew

\* std::set_new_handler called by the program between two requests
SetNewHandler(installed) ==
    /\ npc = "idle"
    /\ new_handler' = installed
    /\ new_handler' # new_handler
    /\ UNCHANGED <<npc, request, new_nodes, alloc_counter, init_counter,
                   lastNew>>
    /\ UNCHANGED outsideNew

\* new_allocator_leak_checker_initializer_t(): ++init_counter
InitializerCtor ==
    /\ npc = "idle"
    /\ init_counter < MaxInit
    /\ init_counter' = Add(init_counter, 1)
    /\ lastNew' = Done("initializer", "new_allocator", 0, 0, NULL, NoRaise, 0, <<>>)
    /\ UNCHANGED <<npc, request, new_nodes, alloc_counter, new_handler>>
    /\ UNCHANGED outsideNew

\* a destructor that reports whenever bytes are outstanding
leak_report_always(inits, counter) ==
    IF counter # 0
    THEN <<HandlerCall("leak", "new_allocator", counter, 0)>>
    ELSE <<>>

\* if (--init_counter == 0u && alloc_counter != 0u)
\*     get_leak_handler()({"new_allocator", nullptr}, alloc_counter);
\* inits is the counter after the decrement
leak_report(inits, counter) ==
    IF inits = 0 /\ counter # 0
    THEN <<HandlerCall("leak", "new_allocator", counter, 0)>>
    ELSE <<>>

\* ~new_allocator_leak_checker_initializer_t()
InitializerDtor ==
    /\ npc = "idle"
    /\ init_counter > 0
    /\ init_counter' = Sub(init_counter, 1)
    /\ lastNew' = Done("~initializer", "new_allocator", 0, 0, NULL, NoRaise, 0,
                       leak_report(Sub(init_counter, 1), alloc_counter))
    /\ UNCHANGED <<npc, request, new_nodes, alloc_counter, new_handler>>
    /\ UNCHANGED outsideNew

\* --------------------------- new_allocator called by several threads
\* what the calls of the threads leave alone
outsideRace == <<blockVars, storageVars, copyVars, referenceVars,
                 handlerVars, policyVars>>

\* calls of allocate_node / deallocate_node one thread makes in a run
MaxThreadCalls == 2

NoNCall == [pc |-> "idle", size |-> 0, reg |-> 0, made |-> 0]

\* a thread's allocate_node(size, alignment): try_allocate returns the
\* memory p; on_alloc(size) comes next
ConcurrentAllocate(t, sz, p) ==
    /\ npc = "idle"
    /\ ncall[t].pc = "idle"
    /\ ncall[t].made < MaxThreadCalls
    /\ new_nodes[p] = 0
    /\ new_nodes' = [new_nodes EXCEPT ![p] = sz]
    /\ ncall' = [ncall EXCEPT ![t] = [pc |-> "on_alloc", size |-> sz,
                                      reg |-> 0, made |-> @.made + 1]]
    /\ UNCHANGED <<npc, request, alloc_counter, init_counter, new_handler,
                   lastNew>>
    /\ UNCHANGED outsideRace

\* a thread's deallocate_node(node, size, alignment) for a node
\* allocate_node has returned: ::operator delete(memory); on_dealloc(size)
\* comes next
ConcurrentDeallocate(t, p) ==
    /\ npc = "idle"
    /\ ncall[t].pc = "idle"
    /\ ncall[t].made < MaxThreadCalls
    /\ new_nodes[p] # 0
    /\ new_nodes' = [new_nodes EXCEPT ![p] = 0]
    /\ ncall' = [ncall EXCEPT ![t] = [pc |-> "on_dealloc",
                                      size |-> new_nodes[p], reg |-> 0,
                                      made |-> @.made + 1]]
    /\ UNCHANGED <<npc, request, alloc_counter, init_counter, new_handler,
                   lastNew>>
    /\ UNCHANGED outsideRace

\* alloc_counter += size / alloc_counter -= size on the plain std::size_t:
\* the read of the counter
CounterLoad(t) ==
    /\ ncall[t].pc \in {"on_alloc", "on_dealloc"}
    /\ ncall' = [ncall EXCEPT ![t].reg = alloc_counter,
                              ![t].pc = IF @ = "on_alloc" THEN "alloc_loaded"
                                        ELSE "dealloc_loaded"]
    /\ UNCHANGED newVars
    /\ UNCHANGED outsideRace

\* the write of the counter: the value read, plus or minus size; the call
\* returns
CounterStore(t) ==
    /\ ncall[t].pc \in {"alloc_loaded", "dealloc_loaded"}
    /\ alloc_counter' = IF ncall[t].pc = "alloc_loaded"
                        THEN on_alloc(ncall[t].reg, ncall[t].size)
                        ELSE on_dealloc(ncall[t].reg, ncall[t].size)
    /\ ncall' = [ncall EXCEPT ![t] = [NoNCall EXCEPT !.made = ncall[t].made]]
    /\ UNCHANGED <<npc, request, new_nodes, init_counter, new_handler,
                   lastNew>>
    /\ UNCHANGED outsideRace

\* the leak checker initializers are static objects: they are made before
\* the threads start and destroyed after the threads have ended
StaticCtor == (\A t \in Threads : ncall[t].pc = "idle") /\ InitializerCtor
StaticDtor == (\A t \in Threads : ncall[t].pc = "idle") /\ InitializerDtor

RaceInit == ncall = [t \in Threads |-> NoNCall]

NewInit ==
    /\ npc = "idle"
    /\ request = NoRequest
    /\ new_nodes = [p \in NewPtrs |-> 0]
    /\ alloc_counter = 0
    /\ init_counter = 0
    /\ new_handler = FALSE
    /\ lastNew = Done("none", "none", 0, 0, NULL, NoRaise, 0, <<>>)

\* ------------------------------------------------------- specification
Init ==
    /\ cur_block_size_ = [l \in Lists |-> IF l = 1 THEN InitBlockSize ELSE 0]
    /\ lstate = [l \in Lists |-> IF l = 1 THEN "live" ELSE "unborn"]
    /\ used_ = [l \in Lists |-> NULL]
    /\ free_ = [l \in Lists |-> NULL]
    /\ size_ = [l \in Lists |-> 0]
    /\ node = [p \in Ptr |-> [prev |-> NULL, size |-> 0]]
    /\ heap = [p \in Ptr |-> NoAlloc]
    /\ badFree = FALSE
    /\ nextPtr = 1
    /\ initial_block_size = [l \in Lists |-> IF l = 1 THEN InitBlockSize ELSE 0]
    /\ fresh = [l \in Lists |-> 0]
    /\ assigned = [l \in Lists |-> FALSE]
    /\ lastOp = Op("construct", 1, 0, 0, FALSE, NoBlock, <<>>)
    /\ underflow = NoUnderflow
    /\ StorageInit
    /\ CopyInit
    /\ ReferenceInit
    /\ HandlerInit
    /\ PolicyInit
    /\ NewInit
    /\ RaceInit

Next ==
    \/ \E l \in Lists, bs \in InitSizes : Construct(l, bs)
    \/ \E l \in Lists : Allocate(l)
    \/ \E l \in Lists : Deallocate(l)
    \/ \E l \in Lists : DeallocateTo(l)
    \/ \E l \in Lists : ShrinkToFit(l)
    \/ \E l \in Lists : Destroy(l)
    \/ \E l, other \in Lists : MoveConstruct(l, other)
    \/ \E l, other \in Lists : MoveAssign(l, other)

Spec == Init /\ [][Next]_vars

\* the same operations, deallocate() and top() being called on lists with
\* no block in use as well
AssertNext ==
    \/ \E l \in Lists, bs \in InitSizes : Construct(l, bs)
    \/ \E l \in Lists : Allocate(l)
    \/ \E l \in Lists : Deallocate(l)
    \/ \E l \in Lists : DeallocateTo(l)
    \/ \E l \in Lists : ShrinkToFit(l)
    \/ \E l \in Lists : Destroy(l)
    \/ \E l, other \in Lists : MoveConstruct(l, other)
    \/ \E l, other \in Lists : MoveAssign(l, other)
    \/ \E l \in Lists : DeallocateUnderflow(l)
    \/ \E l \in Lists : TopUnderflow(l)

SpecAssert == Init /\ [][AssertNext]_vars

\* threads using the allocator_storage objects, through single calls and
\* through lock() proxies
StorageNext ==
    \/ \E t \in Threads, w \in Wrappers, op \in CallOps : StartCall(t, w, op)
    \/ \E t \in Threads : Acquire(t)
    \/ \E t \in Threads, threw \in BOOLEAN : Finish(t, threw)
    \/ \E t \in Threads : Release(t)
    \/ \E t \in Threads, w \in Wrappers : StartLock(t, w)
    \/ \E t \in Threads, p \in Proxies : LockProxy(t, p)
    \/ \E t \in Threads, p, q \in Proxies : MoveProxy(t, p, q)
    \/ \E t \in Threads, p \in Proxies : DestroyProxy(t, p)
    \/ \E t \in Threads, p \in Proxies, op \in CallOps : ProxyCall(t, p, op)
    \/ \E t \in Threads, threw \in BOOLEAN : ProxyFinish(t, threw)

SpecStorage == Init /\ [][StorageNext]_vars

\* the calls of threads that may hold a proxy: one that may raise, one that
\* is noexcept
RelockOps == {"allocate_node", "deallocate_node"}

\* threads that call the locking operations and lock() whether or not they
\* hold a proxy
RelockNext ==
    \/ \E t \in Threads, w \in Wrappers, op \in RelockOps : StartCall(t, w, op)
    \/ \E t \in Threads : Acquire(t)
    \/ \E t \in Threads, threw \in BOOLEAN : Finish(t, threw)
    \/ \E t \in Threads : Release(t)
    \/ \E t \in Threads, w \in Wrappers : StartLock(t, w)
    \/ \E t \in Threads, w \in Wrappers : StartLockAgain(t, w)
    \/ \E t \in Threads, p \in Proxies : LockProxy(t, p)
    \/ \E t \in Threads, p, q \in Proxies : MoveProxy(t, p, q)
    \/ \E t \in Threads, p \in Proxies : DestroyProxy(t, p)
    \/ \E t \in Threads, p \in Proxies, op \in RelockOps : ProxyCall(t, p, op)
    \/ \E t \in Threads, threw \in BOOLEAN : ProxyFinish(t, threw)
    \/ \E t \in Threads : OwnerLockRaises(t)
    \/ \E t \in Threads : OwnerLockTerminates(t)

SpecRelock == Init /\ [][RelockNext]_vars

\* the calls made on the objects that are copied: one that may raise, one
\* that may not
CopyOps == {"allocate_node", "deallocate_node"}

\* threads that call, lock, construct, copy, move, assign and destroy
\* allocator_storage objects
CopyNext ==
    \/ \E t \in Threads, w \in Wrappers, op \in CopyOps : StartCall(t, w, op)
    \/ \E t \in Threads : Acquire(t)
    \/ \E t \in Threads, threw \in BOOLEAN : Finish(t, threw)
    \/ \E t \in Threads : Release(t)
    \/ \E t \in Threads, w \in Wrappers : StartLock(t, w)
    \/ \E t \in Threads, p \in Proxies : LockProxy(t, p)
    \/ \E t \in Threads, p \in Proxies : DestroyProxy(t, p)
    \/ \E t \in Threads, w \in Wrappers : StorageConstruct(t, w)
    \/ \E t \in Threads, src, dst \in Wrappers : StorageCopy(t, src, dst)
    \/ \E t \in Threads, src, dst \in Wrappers : StorageMove(t, src, dst)
    \/ \E t \in Threads, src, dst \in Wrappers : StorageCopyAssign(t, src, dst)
    \/ \E t \in Threads, src, dst \in Wrappers : StorageMoveAssign(t, src, dst)
    \/ \E t \in Threads, w \in Wrappers : StorageDestroy(t, w)

SpecCopy == Init /\ [][CopyNext]_vars

\* threads that use only the operations locking for one call.  The stored
\* allocator's operations terminate, a lock_guard's destructor runs, and a
\* thread waiting in Mutex::lock() gets the mutex if it is free again and
\* again.
CallNext ==
    \/ \E t \in Threads, w \in Wrappers, op \in CallOps : StartCall(t, w, op)
    \/ \E t \in Threads : Acquire(t)
    \/ \E t \in Threads, threw \in BOOLEAN : Finish(t, threw)
    \/ \E t \in Threads : Release(t)

CallFairness ==
    \A t \in Threads :
        /\ SF_vars(Acquire(t))
        /\ WF_vars(\E threw \in BOOLEAN : Finish(t, threw))
        /\ WF_vars(Release(t))

SpecStorageLive == Init /\ [][CallNext]_vars /\ CallFairness

\* threads replacing, reading and invoking the handlers
HandlerNext ==
    \/ \E t \in Threads, k \in Kinds, h \in UserHandlers \cup {nullptr} :
           SetCall(t, k, h)
    \/ \E t \in Threads : Exchange(t)
    \/ \E t \in Threads, k \in Kinds : GetHandler(t, k)
    \/ \E t \in Threads, run \in BOOLEAN : Invoke(t, run)

SpecHandlers == Init /\ [][HandlerNext]_vars

\* calls of the log2_access_policy functions with every size
PolicyNext ==
    \/ \E build \in Builds, sz \in 1 .. SizeMod - 1 : IndexFromSize(build, sz)
    \/ SizeOfAnyBucket
    \/ SizeOfBucket
    \/ \E build \in Builds, index \in 0 .. SizeBits - 1 : RoundTrip(build, index)

SpecPolicy == Init /\ [][PolicyNext]_vars

\* one thread using new_allocator, the leak checker initializers of the
\* translation units, and calls of check_allocation_size
NewNext ==
    \/ \E sz \in NodeSizes : AllocateNode(sz)
    \/ TryFails
    \/ \E p \in NewPtrs : TrySucceeds(p)
    \/ \E effect \in {"continue", "uninstall", "throw"} : CallNewHandler(effect)
    \/ \E handlerReturns \in BOOLEAN : ThrowOutOfMemory(handlerReturns)
    \/ \E p \in NewPtrs : DeallocateNode(p)
    \/ \E installed \in BOOLEAN : SetNewHandler(installed)
    \/ InitializerCtor
    \/ InitializerDtor
    \/ \E passed, supported \in 0 .. MaxPassed, info \in Infos,
          handlerReturns \in BOOLEAN :
           CheckAllocationSize(passed, supported, info, handlerReturns)

SpecNew == Init /\ [][NewNext]_vars

\* threads calling allocate_node and deallocate_node of new_allocator at
\* the same time, between the construction and the destruction of the
\* leak checker initializers
RaceNext ==
    \/ \E t \in Threads, sz \in NodeSizes, p \in NewPtrs :
           ConcurrentAllocate(t, sz, p)
    \/ \E t \in Threads, p \in NewPtrs : ConcurrentDeallocate(t, p)
    \/ \E t \in Threads : CounterLoad(t)
    \/ \E t \in Threads : CounterStore(t)
    \/ StaticCtor
    \/ StaticDtor

SpecNewThreads == Init /\ [][RaceNext]_vars

\* the arguments an operation of the uniform set is called with
ArgsOf(op) ==
    IF op \in {"allocate_node"} THEN {1} \X Sizes \X {0}
    ELSE IF op = "allocate_array" THEN (1 .. MaxCount) \X Sizes \X {0}
    ELSE IF op = "deallocate_node" THEN {1} \X Sizes \X Slots
    ELSE IF op = "deallocate_array" THEN (1 .. MaxCount) \X Sizes \X Slots
    ELSE {<<0, 0, 0>>}

\* references made, copied, assigned and destroyed, and operations made
\* through them
ReferenceNext ==
    \/ \E r \in Refs, a \in Allocators, erased \in BOOLEAN :
           MakeRef(r, a, erased)
    \/ \E r, other \in Refs : CopyRef(r, other)
    \/ \E r, other \in Refs : CopyAssign(r, other)
    \/ \E r \in Refs : DestroyRef(r)
    \/ \E r \in Refs, op \in RefOps :
           \E args \in ArgsOf(op) : RefCall(r, op, args[1], args[2], args[3])

SpecReference == Init /\ [][ReferenceNext]_vars

TypeOK ==
    /\ lstate \in [Lists -> {"unborn", "live", "dead", "aborted"}]
    /\ used_ \in [Lists -> Ptr \cup {NULL}]
    /\ free_ \in [Lists -> Ptr \cup {NULL}]
    /\ size_ \in [Lists -> 0 .. SizeMod - 1]
    /\ cur_block_size_ \in [Lists -> 0 .. SizeMod - 1]
    /\ nextPtr \in 1 .. MaxBlocks + 1
    /\ badFree \in BOOLEAN

\* ------------------------------------------------- reading the lists
\* the blocks linked from head through prev, top first; a walk of more than
\* MaxBlocks steps has met some block twice
RECURSIVE chain(_, _, _)
chain(nd, head, fuel) ==
    IF head = NULL \/ fuel = 0 THEN <<>>
    ELSE <<head>> \o chain(nd, nd[head].prev, fuel - 1)

Chain(nd, head) == chain(nd, head, MaxBlocks + 1)

Used(l) == Chain(node, used_[l])
Free(l) == Chain(node, free_[l])

Range(s) == {s[i] : i \in 1 .. Len(s)}

\* what the upstream is handed when the blocks of s are returned in order
ReleaseLog(hp, s) == [i \in 1 .. Len(s) |-> block_info(Addr(s[i]), hp[s[i]].size)]

\* ------------------------------------------------------------------ C1
\* C1: allocate() with an empty free-cache requests exactly cur_block_size
\* bytes upstream and pushes the new block on top of used; with a non-empty
\* free-cache it makes no upstream call and moves the top of the free-cache
\* to the top of used.  The returned block is the new top of used: it starts
\* impl_offset bytes after the block's begin and has the block's upstream
\* size minus impl_offset.
C1_AllocateContract ==
    [][\A l \in Lists :
          (lastOp'.op = "allocate" /\ lastOp'.l = l /\ ~lastOp'.threw) =>
             LET newtop == used_'[l]
             IN  /\ newtop # NULL
                 /\ IF free_[l] = NULL
                    THEN /\ lastOp'.req = cur_block_size_[l]
                         /\ heap[newtop].st = "unalloc"
                         /\ heap'[newtop].st = "out"
                         /\ heap'[newtop].size = cur_block_size_[l]
                         /\ \A p \in Ptr \ {newtop} : heap'[p] = heap[p]
                         /\ Chain(node', free_'[l]) = Free(l)
                    ELSE /\ lastOp'.req = 0
                         /\ heap' = heap
                         /\ newtop = Head(Free(l))
                         /\ Chain(node', free_'[l]) = Tail(Free(l))
                 /\ Chain(node', used_'[l]) = <<newtop>> \o Used(l)
                 /\ lastOp'.ret = block_info(Addr(newtop) + impl_offset,
                                             heap'[newtop].size - impl_offset)
                 /\ lastOp'.ret = impl_top(node', used_'[l])
    ]_vars

\* a cached block has been reused on top of another used block, and a list
\* has obtained a fresh block on top of another one
C1_Witness ==
    /\ lastOp.op = "allocate" /\ ~lastOp.threw
    /\ Len(Used(lastOp.l)) >= 2
    /\ \/ lastOp.req = 0
       \/ lastOp.req = 2 * InitBlockSize

\* ------------------------------------------------------------------ C2
\* C2: deallocate() and deallocate(used_to), with a block in use, move
\* exactly the top block of used to the top of the free-cache, make no
\* upstream call, and leave cur_block_size and every other block's list
\* and position unchanged.
C2_DeallocateFrame ==
    [][\A l \in Lists :
          (lastOp'.op = "deallocate" /\ lastOp'.l = l) =>
             /\ Used(l) # <<>>
             /\ Chain(node', used_'[l]) = Tail(Used(l))
             /\ Chain(node', free_'[l]) = <<Head(Used(l))>> \o Free(l)
             /\ heap' = heap
             /\ badFree' = badFree
             /\ lastOp'.req = 0 /\ lastOp'.released = <<>>
             /\ cur_block_size_' = cur_block_size_
             /\ \A o \in Lists \ {l} :
                    /\ Chain(node', used_'[o]) = Used(o)
                    /\ Chain(node', free_'[o]) = Free(o)
    ]_vars

\* a block was deallocated from below which another block stays in use and
\* onto a non-empty free-cache
C2_Witness ==
    /\ lastOp.op = "deallocate"
    /\ Len(Used(lastOp.l)) >= 1
    /\ Len(Free(lastOp.l)) >= 2

\* ------------------------------------------------------------------ C3
\* C3: shrink_to_fit() returns every block of the free-cache upstream, each
\* with the byte size it was requested with; the free-cache is empty
\* afterwards; used, size() and next_block_size() are unchanged.
C3_ShrinkToFit ==
    [][\A l \in Lists :
          (lastOp'.op = "shrink_to_fit" /\ lastOp'.l = l) =>
             /\ lastOp'.released = ReleaseLog(heap, Free(l))
             /\ \A p \in Range(Free(l)) :
                    /\ heap[p].st = "out"
                    /\ heap'[p].st = "ret"
                    /\ heap'[p].rets = 1
                    /\ heap'[p].ok
             /\ \A p \in Ptr \ Range(Free(l)) : heap'[p] = heap[p]
             /\ badFree' = badFree
             /\ Chain(node', free_'[l]) = <<>>
             /\ Chain(node', used_'[l]) = Used(l)
             /\ size_'[l] = size_[l]
             /\ Sub(cur_block_size_'[l], impl_offset) = next_block_size(l)
    ]_vars

\* shrink_to_fit has returned two cached blocks while one stays in use
C3_Witness ==
    /\ lastOp.op = "shrink_to_fit"
    /\ Len(lastOp.released) >= 2
    /\ Len(Used(lastOp.l)) >= 1

\* ------------------------------------------------------------------ C4
\* the outstanding blocks and the blocks the live lists hold
Outstanding == {p \in Ptr : heap[p].st = "out"}
Held(l) == Range(Used(l)) \cup Range(Free(l))

\* every block a block_list has returned came back once and with the size
\* it was requested with, and no other pointer was handed to the upstream
ReturnedOnce ==
    /\ ~badFree
    /\ \A p \in Ptr :
           /\ heap[p].rets <= 1
           /\ heap[p].ok
           /\ heap[p].st = "ret" <=> heap[p].rets = 1

\* every outstanding block is held by a live list, whose destructor
\* returns it
NoLeak == \A p \in Outstanding : \E l \in Lists : lstate[l] = "live" /\ p \in Held(l)

\* C4: destroying a block_list returns every block it still holds, first
\* the cached blocks, then the used blocks.  Over any sequence of
\* operations every block obtained from upstream is returned exactly once,
\* with the pointer and byte size it was obtained with: none is leaked
\* (every outstanding block is held by a live list; no block is outstanding
\* once no list is live) and none is returned twice.
C4_ReturnedExactlyOnce ==
    /\ [](ReturnedOnce /\ NoLeak)
    /\ [][\A l \in Lists :
            (lastOp'.op = "destroy" /\ lastOp'.l = l) =>
               /\ lastOp'.released =
                      ReleaseLog(heap, Free(l)) \o ReleaseLog(heap, Used(l))
               /\ \A p \in Held(l) : heap[p].st = "out" /\ heap'[p].st = "ret"
               /\ \A p \in Ptr \ Held(l) : heap'[p] = heap[p]
       ]_vars

\* a list holding cached and used blocks was destroyed, and every block
\* ever obtained has been returned
C4_Witness ==
    /\ lastOp.op = "destroy"
    /\ Len(lastOp.released) = MaxBlocks
    /\ \A l \in Lists : lstate[l] = "dead"
    /\ \A p \in Ptr : heap[p].st = "ret"

\* ------------------------------------------------------------------ C5
\* C5: after move construction from b, or move assignment a = move(b) of
\* two distinct lists, the destination holds b's former used and cached
\* blocks in the same order, with b's former size() and next_block_size();
\* b has size() 0 and no used and no cached blocks, and destroying b
\* releases nothing.  On move assignment every block a held before is
\* returned upstream exactly once.
C5_MoveTransfers ==
    [][\A a, b \in Lists :
          (/\ lastOp'.op \in {"move_construct", "move_assign"}
           /\ lastOp'.l = a /\ lastOp'.o = b /\ a # b) =>
             /\ Chain(node', used_'[a]) = Used(b)
             /\ Chain(node', free_'[a]) = Free(b)
             /\ size_'[a] = size(b)
             /\ Sub(cur_block_size_'[a], impl_offset) = next_block_size(b)
             /\ size_'[b] = 0
             /\ Chain(node', used_'[b]) = <<>>
             /\ Chain(node', free_'[b]) = <<>>
             /\ destroy_list([heap |-> heap', bad |-> FALSE, log |-> <<>>],
                             node', used_'[b], free_'[b])
                    = [heap |-> heap', bad |-> FALSE, log |-> <<>>]
             /\ IF lastOp'.op = "move_construct"
                THEN heap' = heap /\ lastOp'.released = <<>>
                ELSE /\ \A p \in Held(a) :
                            /\ heap[p].st = "out"
                            /\ heap'[p].st = "ret"
                            /\ heap'[p].rets = 1
                            /\ heap'[p].ok
                     /\ Range(lastOp'.released) =
                            Range(ReleaseLog(heap, Free(a)))
                                \cup Range(ReleaseLog(heap, Used(a)))
                     /\ \A p \in Ptr \ Held(a) : heap'[p] = heap[p]
                     /\ Len(lastOp'.released) = Cardinality(Held(a))
             /\ badFree' = badFree
    ]_vars

\* a move assignment whose destination held blocks of its own and received
\* used and cached blocks of the source
C5_Witness ==
    /\ lastOp.op = "move_assign"
    /\ lastOp.l # lastOp.o
    /\ lastOp.released # <<>>
    /\ Used(lastOp.l) # <<>>
    /\ Free(lastOp.l) # <<>>

\* ------------------------------------------------------------------ C6
\* the blocks of all lists of both block_list objects
HeldAnywhere == Used(1) \o Free(1) \o Used(2) \o Free(2)

\* how often block p occurs in the sequence s
RECURSIVE Occurrences(_, _)
Occurrences(s, p) ==
    IF s = <<>> THEN 0
    ELSE (IF Head(s) = p THEN 1 ELSE 0) + Occurrences(Tail(s), p)

TotalOccurrences(p) == Occurrences(HeldAnywhere, p)

\* C6: in every reachable state every block obtained from upstream and not
\* yet returned is in exactly one of the lists used and free-cache, exactly
\* once: no block is in both lists, none is duplicated, no list is cyclic.
C6_BlocksInOneList ==
    /\ \A p \in Ptr :
           TotalOccurrences(p) = IF heap[p].st = "out" THEN 1 ELSE 0
    /\ \A l \in Lists :
           /\ Len(Used(l)) <= MaxBlocks
           /\ Len(Free(l)) <= MaxBlocks

\* both lists of one block_list hold blocks while the other block_list
\* holds a block as well
C6_Witness ==
    /\ Used(1) # <<>> /\ Free(1) # <<>>
    /\ Held(2) # {}

\* ------------------------------------------------------------------ C7
\* C7: if the upstream raises during allocate(), the block list is left
\* unchanged: same used and cached blocks, same size(), same
\* next_block_size(); nothing was obtained upstream.  An allocate() that
\* returns normally returns a valid block.
C7_AllocateFailure ==
    [][\A l \in Lists :
          (lastOp'.op = "allocate" /\ lastOp'.l = l) =>
             IF lastOp'.threw
             THEN /\ lastOp'.ret = NoBlock
                  /\ <<lstate, used_, free_, size_, cur_block_size_,
                       node, heap, badFree, nextPtr>>' =
                     <<lstate, used_, free_, size_, cur_block_size_,
                       node, heap, badFree, nextPtr>>
             ELSE LET p == PtrAt(lastOp'.ret.memory - impl_offset)
                  IN  /\ p # NULL
                      /\ heap'[p].st = "out"
                      /\ used_'[l] = p
                      /\ lastOp'.ret.size > 0
                      /\ lastOp'.ret.size + impl_offset = heap'[p].size
    ]_vars

\* the upstream raised while the list holds a used block and has grown
C7_Witness ==
    /\ lastOp.op = "allocate" /\ lastOp.threw
    /\ Used(lastOp.l) # <<>>
    /\ cur_block_size_[lastOp.l] > InitBlockSize

\* ------------------------------------------------------------------ C8
\* a fresh upstream allocation has just been made by list l
FreshStep(l) ==
    /\ lastOp'.op = "allocate" /\ lastOp'.l = l
    /\ ~lastOp'.threw /\ lastOp'.req # 0

\* C8 as stated: over any sequence of block_list operations the k-th fresh
\* upstream request of a list asks for initial_block_size * 2^k bytes and
\* the slab's usable size is that minus impl_offset.
C8_Original ==
    [][\A l \in Lists :
          FreshStep(l) =>
             /\ lastOp'.req = initial_block_size[l] * 2 ^ fresh[l]
             /\ lastOp'.ret.size =
                    initial_block_size[l] * 2 ^ fresh[l] - impl_offset
    ]_vars

\* C8 amended: for a block_list that has not been the target or the source
\* of a move assignment, the k-th fresh upstream allocation asks for
\* initial_block_size * 2^k bytes (initial_block_size being the block size
\* it was constructed with, for a move-constructed list the source's
\* cur_block_size) and the slab's usable size is that minus impl_offset.
\* cur_block_size is doubled by a fresh upstream allocation and changed by
\* nothing else but a move: move construction copies the source's value,
\* move assignment a = move(b) gives a the value of b and b the value of a.
C8_Growth ==
    [][/\ \A l \in Lists :
             (FreshStep(l) /\ ~assigned[l]) =>
                /\ lastOp'.req = initial_block_size[l] * 2 ^ fresh[l]
                /\ lastOp'.ret.size =
                       initial_block_size[l] * 2 ^ fresh[l] - impl_offset
                /\ lastOp'.ret.size + impl_offset = lastOp'.req
       /\ \A l \in Lists :
             FreshStep(l) =>
                /\ cur_block_size_'[l] = 2 * cur_block_size_[l]
                /\ \A o \in Lists \ {l} :
                       cur_block_size_'[o] = cur_block_size_[o]
       /\ (/\ lastOp'.op \in {"allocate", "deallocate", "shrink_to_fit"}
           /\ \A l \in Lists : ~FreshStep(l)) =>
                cur_block_size_' = cur_block_size_
       /\ \A a, b \in Lists :
             (lastOp'.l = a /\ lastOp'.o = b) =>
                /\ lastOp'.op = "move_construct" =>
                       /\ cur_block_size_'[a] = cur_block_size_[b]
                       /\ cur_block_size_'[b] = cur_block_size_[b]
                /\ lastOp'.op = "move_assign" =>
                       /\ cur_block_size_'[a] = cur_block_size_[b]
                       /\ cur_block_size_'[b] = cur_block_size_[a]
    ]_vars

\* a list never move-assigned has obtained its third fresh slab, after a
\* cached block had been reused
C8_Witness ==
    /\ lastOp.op = "allocate" /\ ~lastOp.threw /\ lastOp.req # 0
    /\ ~assigned[lastOp.l]
    /\ fresh[lastOp.l] = 3
    /\ lastOp.req = 4 * initial_block_size[lastOp.l]

\* ------------------------------------------------------------------ C9
\* the bytes obtained from the upstream and not returned to it
RECURSIVE SumSizes(_, _)
SumSizes(hp, ps) ==
    IF ps = {} THEN 0
    ELSE LET p == CHOOSE q \in ps : TRUE
         IN  hp[p].size + SumSizes(hp, ps \ {p})

OutstandingBytes(hp) == SumSizes(hp, {p \in Ptr : hp[p].st = "out"})

\* the outstanding bytes among the blocks of the sequences u and f
HeldBytes(hp, u, f) ==
    SumSizes(hp, {p \in Range(u) \cup Range(f) : hp[p].st = "out"})

\* C9: the bytes obtained from the upstream and not returned to it never
\* decrease across allocate() and deallocate() calls, in total and for the
\* list operated on; they decrease only through shrink_to_fit, destruction
\* or move assignment.
C9_CapacityMonotone ==
    [][/\ lastOp'.op \in {"allocate", "deallocate"} =>
             /\ OutstandingBytes(heap') >= OutstandingBytes(heap)
             /\ \A l \in Lists :
                    HeldBytes(heap', Chain(node', used_'[l]),
                              Chain(node', free_'[l]))
                        >= HeldBytes(heap, Used(l), Free(l))
       /\ OutstandingBytes(heap') < OutstandingBytes(heap) =>
             lastOp'.op \in {"shrink_to_fit", "destroy", "move_assign"}
    ]_vars

\* a block was deallocated and its bytes are still held
C9_Witness ==
    /\ lastOp.op = "deallocate"
    /\ Used(lastOp.l) = <<>>
    /\ HeldBytes(heap, Used(lastOp.l), Free(lastOp.l)) >= 3 * InitBlockSize
    /\ OutstandingBytes(heap) >= 3 * InitBlockSize

\* ----------------------------------------------------------------- C10
\* C10: size() equals the number of blocks in used in every reachable
\* state; cached blocks are not counted.
C10_SizeCountsUsed ==
    \A l \in Lists : size(l) = Len(Used(l))

\* a move-assigned list with two used blocks and a cached block beside a
\* moved-from list
C10_Witness ==
    \E l \in Lists :
        /\ assigned[l]
        /\ size(l) = 2
        /\ Free(l) # <<>>
        /\ \E o \in Lists \ {l} : lstate[o] = "live" /\ size(o) = 0

\* ------------------------------------------- reading the storage state
\* the threads executing inside the stored allocator through wrapper w, by
\* one of its locking operations or through a lock() proxy of it
InsideThrough(w) == {t \in Threads : pc[t] = "inside" /\ call[t].w = w}

\* the threads between the lock_guard's construction and its destruction
InGuard(w) ==
    {t \in Threads : /\ pc[t] \in {"inside", "returning", "throwing"}
                     /\ call[t].via = "storage"
                     /\ call[t].w = w}

\* the proxies that hold the lock of wrapper w
Holding(w) == {p \in Proxies : proxy[p].st = "live" /\ proxy[p].mutex_ = w}

\* C11: for an allocator_storage with a real mutex over a stateful
\* allocator, a thread executing one of allocate_node .. max_alignment owns
\* the mutex from before it enters the stored allocator until the call on
\* it has finished, and at most one thread at a time is inside the stored
\* allocator through that object.
C11_MutualExclusion ==
    \A w \in Wrappers :
        mutex_for(w) = "Mutex" =>
            /\ \A t \in InGuard(w) : mutex_[w] = t
            /\ Cardinality(InsideThrough(w)) <= 1

\* a thread is inside the allocator through wrapper 1 while the other
\* thread waits in a call on the same wrapper
C11_Witness ==
    \E t, u \in Threads :
        /\ t # u
        /\ pc[t] = "inside" /\ call[t].via = "storage" /\ call[t].w = 1
        /\ pc[u] = "enter" /\ call[u].w = 1 /\ call[u].op \in CallOps

\* C12: the proxy lock() returns acquires the mutex when it is created;
\* while a proxy that was not moved from lives, its thread owns the mutex;
\* moving the proxy hands the lock to the new proxy without unlocking, and
\* destroying the moved-from proxy does not unlock; the mutex is unlocked
\* once, by the destruction of the proxy that holds the lock.
C12_ProxyHoldsLock ==
    /\ [](\A w \in Wrappers :
             mutex_for(w) = "Mutex" =>
                 /\ Cardinality(Holding(w)) <= 1
                 /\ \A p \in Holding(w) : mutex_[w] = proxy[p].thread)
    /\ [][\A p \in Proxies :
             \* creation by lock()
             /\ (proxy[p].st = "unborn" /\ proxy'[p].st = "live"
                    /\ pc[local_of[p]] = "enter"
                    /\ mutex_for(proxy'[p].mutex_) = "Mutex")
                  => /\ mutex_[proxy'[p].mutex_] = NULL
                     /\ mutex_'[proxy'[p].mutex_] = local_of[p]
             \* the proxy is moved from
             /\ (proxy[p].st = "live" /\ proxy'[p].st = "live"
                    /\ proxy[p].mutex_ # proxy'[p].mutex_)
                  => /\ proxy'[p].mutex_ = NULL
                     /\ mutex_' = mutex_
                     /\ \E q \in Proxies \ {p} :
                            /\ proxy[q].st = "unborn"
                            /\ proxy'[q].st = "live"
                            /\ proxy'[q].mutex_ = proxy[p].mutex_
                            /\ proxy'[q].alloc_ = proxy[p].alloc_
             \* destruction
             /\ (proxy[p].st = "live" /\ proxy'[p].st = "unborn")
                  => IF proxy[p].mutex_ = NULL
                     THEN mutex_' = mutex_
                     ELSE /\ mutex_' = mutex_unlock(mutex_, proxy[p].mutex_)
                          /\ mutex_for(proxy[p].mutex_) = "Mutex" =>
                                 /\ mutex_[proxy[p].mutex_] = local_of[p]
                                 /\ mutex_'[proxy[p].mutex_] = NULL
                                 /\ \A q \in Proxies :
                                        ~(proxy'[q].st = "live" /\
                                          proxy'[q].mutex_ = proxy[p].mutex_)
             \* as long as the holder lives the mutex stays locked
             /\ (proxy[p].st = "live" /\ proxy[p].mutex_ # NULL
                    /\ mutex_for(proxy[p].mutex_) = "Mutex"
                    /\ mutex_'[proxy[p].mutex_] # mutex_[proxy[p].mutex_])
                  => proxy'[p].st = "unborn"]_vars

\* a moved-from proxy is still alive next to the proxy that took over the
\* lock of wrapper 1, and the other thread waits for that lock
C12_Witness ==
    \E p, q \in Proxies, u \in Threads :
        /\ proxy[p].st = "live" /\ proxy[p].mutex_ = NULL
        /\ proxy[q].st = "live" /\ proxy[q].mutex_ = 1
        /\ mutex_[1] = proxy[q].thread
        /\ u # proxy[q].thread /\ pc[u] = "enter" /\ call[u].w = 1

\* C13: an allocator_storage over a stateless allocator has the no-op
\* mutex although a real Mutex was requested: none of its operations,
\* lock() included, takes a lock or waits for one.
C13_StatelessNeverLocks ==
    \A w \in Wrappers :
        ~is_stateful[w] =>
            /\ mutex_for(w) = "no_mutex"
            /\ mutex_[w] = NULL
            /\ \A t \in Threads :
                   (pc[t] = "enter" /\ call[t].w = w) =>
                       IF call[t].op = "lock"
                       THEN ENABLED LockProxy(t, lock_result[t])
                       ELSE ENABLED Acquire(t)

\* both threads are inside the stateless allocator through wrapper 3 while
\* a lock() proxy of wrapper 3 is alive
C13_Witness ==
    /\ \A t \in Threads :
           pc[t] = "inside" /\ call[t].w = 3 /\ call[t].via = "storage"
    /\ \E p \in Proxies : proxy[p].st = "live" /\ proxy[p].mutex_ = 3

\* ----------------------------------------- reading the reference state
\* the same-named allocator_traits operation with the same arguments
SameNamed(op, count, sz, ptr) ==
    Reached(op, IF op \in {"allocate_array", "deallocate_array"}
                THEN count ELSE 0, sz, ptr)

\* the step is an operation of the uniform set made through reference r
IsRefCall(r) == lastRefOp'.r = r /\ lastRefOp'.op \in RefOps

\* the step has on the allocators exactly the effect of `reached` carried
\* out directly on allocator a, and returns what that returns
EffectOn(a, reached) ==
    LET direct == traits_call(allocated[a], reached)
    IN  /\ allocated' = [allocated EXCEPT ![a] = direct.out]
        /\ lastRefOp'.ret = direct.ret
        /\ lastRefOp'.threw = direct.threw

\* C14: a reference_storage<RawAllocator> made of a stateful allocator A
\* stores A's address and get_allocator() yields A, for the reference and
\* for every copy and copy-assignment of it; an operation through it has
\* exactly the effect and result of the operation made directly on A;
\* making, copying, assigning and destroying references changes no
\* allocator.  Made of a stateless allocator it stores nothing and
\* get_allocator() yields a newly constructed instance each time.
C14_ReferenceIsAlias ==
    /\ [](\A r \in Refs :
             (ref[r].st = "live" /\ ~ref[r].erased) =>
                 IF stateful[ref[r].from]
                 THEN /\ ref[r].alloc_ = ref[r].from
                      /\ get_allocator(ref[r]) =
                             [obj |-> ref[r].from, temporary |-> FALSE]
                 ELSE /\ ref[r].alloc_ = NULL
                      /\ get_allocator(ref[r]) =
                             [obj |-> NULL, temporary |-> TRUE])
    /\ [][/\ \A r \in Refs :
               (IsRefCall(r) /\ ~ref[r].erased) =>
                   /\ lastRefOp'.target = get_allocator(ref[r])
                   /\ lastRefOp'.reached =
                          SameNamed(lastRefOp'.op, lastRefOp'.count,
                                    lastRefOp'.size, lastRefOp'.ptr)
                   /\ EffectOn(ref[r].from, lastRefOp'.reached)
                   /\ ref' = ref
           /\ (lastRefOp'.op \in {"construct", "copy", "assign", "destroy"}
                  => allocated' = allocated)]_vars

\* the reference 2 is a copy of reference 1, both made of the stateful
\* allocator 2, and an allocate_array through the copy has taken memory of
\* allocator 2
C14_Witness ==
    /\ ref[1].st = "live" /\ ref[2].st = "live"
    /\ ~ref[1].erased /\ ~ref[2].erased
    /\ ref[1].from = 2 /\ ref[2].from = 2
    /\ lastRefOp.r = 2 /\ lastRefOp.op = "allocate_array"
    /\ lastRefOp.count = 2 /\ ~lastRefOp.threw
    /\ allocated[2][lastRefOp.ret].kind = "allocate_array"

\* the statement of C15 as it was made: through the type-erased reference
\* every operation reaches the same-named operation with the same arguments
C15_Original ==
    [][\A r \in Refs :
          (IsRefCall(r) /\ ref[r].erased) =>
              /\ lastRefOp'.reached =
                     SameNamed(lastRefOp'.op, lastRefOp'.count,
                               lastRefOp'.size, lastRefOp'.ptr)
              /\ EffectOn(ref[r].from, lastRefOp'.reached)]_vars

\* C15: through a reference_storage<any_allocator> allocate_node,
\* deallocate_node, max_node_size, max_array_size and max_alignment, and
\* allocate_array / deallocate_array with a count other than 1, have the
\* effect and result of the same-named allocator_traits operation with the
\* same arguments on the wrapped allocator; allocate_array and
\* deallocate_array with count 1 have the effect and result of
\* allocate_node / deallocate_node with the same size; copies of the
\* erased reference refer to the same wrapped allocator.
C15_ErasedDispatch ==
    /\ [](\A r \in Refs :
             (ref[r].st = "live" /\ ref[r].erased) =>
                 state_of(get_allocator(ref[r])) = ref[r].from)
    /\ [][\A r \in Refs :
             (IsRefCall(r) /\ ref[r].erased) =>
                 LET op == lastRefOp'.op
                     n  == lastRefOp'.count
                     sz == lastRefOp'.size
                     p  == lastRefOp'.ptr
                 IN  /\ lastRefOp'.reached =
                            IF op = "allocate_array" /\ n = 1
                            THEN SameNamed("allocate_node", 1, sz, p)
                            ELSE IF op = "deallocate_array" /\ n = 1
                            THEN SameNamed("deallocate_node", 1, sz, p)
                            ELSE SameNamed(op, n, sz, p)
                     /\ EffectOn(ref[r].from, lastRefOp'.reached)
                     /\ ref' = ref]_vars

\* an allocate_array of one element made through an erased copy has taken
\* a node of the wrapped stateful allocator 1
C15_Witness ==
    /\ ref[1].st = "live" /\ ref[2].st = "live"
    /\ ref[1].erased /\ ref[2].erased
    /\ ref[1].from = 1 /\ ref[2].from = 1
    /\ lastRefOp.r = 2 /\ lastRefOp.op = "allocate_array"
    /\ lastRefOp.count = 1 /\ ~lastRefOp.threw
    /\ allocated[1][lastRefOp.ret] =
           [kind |-> "allocate_node", count |-> 0, size |-> lastRefOp.size]

IsSetReturn(t) == hcall[t].pc = "set" /\ hcall'[t].pc = "idle"

\* the step is the load of thread t's get call
IsGet(t) == hcall[t].pc = "idle" /\ hcall'[t].pc = "loaded"

\* the step is thread t invoking the handler it got
IsInvoke(t) == hcall[t].pc = "loaded" /\ hcall'[t].op = "invoke"

\* C17: for each of the three handlers, a set with a non-null handler
\* installs that handler and a set with nullptr installs the built-in
\* default, which is not null; a get returns the handler installed last;
\* every set returns the handler that was installed immediately before it.
C17_HandlerReplacement ==
    /\ [](\A k \in Kinds : default_handler(k) # nullptr)
    /\ [][\A t \in Threads :
             /\ IsSetReturn(t) =>
                    LET k == hcall[t].kind
                        h == hcall[t].val
                    IN  /\ hcall'[t].ret = handler_h[k]
                        /\ handler_h'[k] =
                               IF h # nullptr THEN h ELSE default_handler(k)
                        /\ \A j \in Kinds \ {k} : handler_h'[j] = handler_h[j]
             /\ IsGet(t) =>
                    /\ hcall'[t].ret = handler_h[hcall'[t].kind]
                    /\ handler_h' = handler_h]_vars

\* one thread's set(nullptr) has returned the handler h1 that was installed
\* before, and the other thread's get of the same kind has then returned
\* the default handler
C17_Witness ==
    \E t, u \in Threads :
        /\ hcall[u].pc = "idle" /\ hcall[u].op = "set"
        /\ hcall[u].val = nullptr /\ hcall[u].ret = "h1"
        /\ hcall[t].op = "get" /\ hcall[t].kind = hcall[u].kind
        /\ hcall[t].ret = default_handler(hcall[t].kind)
        /\ handler_h[hcall[t].kind] = default_handler(hcall[t].kind)

\* C18: under every interleaving of set and get calls of several threads
\* the stored handler is never null, a stored handler changes only to what
\* a set call installs, and every get observes the default or a handler a
\* program installed: some handler always runs.
C18_NeverNull ==
    /\ [](/\ \A k \in Kinds :
               /\ handler_h[k] # nullptr
               /\ handler_h[k] \in UserHandlers \cup {default_handler(k)}
           /\ \A t \in Threads :
               hcall[t].pc = "loaded" =>
                   /\ hcall[t].ret # nullptr
                   /\ hcall[t].ret \in
                          UserHandlers \cup {default_handler(hcall[t].kind)})
    /\ [][\A k \in Kinds :
             handler_h'[k] # handler_h[k] =>
                 \E t \in Threads :
                     /\ IsSetReturn(t) /\ hcall[t].kind = k
                     /\ handler_h'[k] \in {hcall[t].val, default_handler(k)}]_vars

\* a thread has got the handler h1 and is about to invoke it while the other
\* thread, which had called set before that get, has replaced it by h2
C18_Witness ==
    \E t, u \in Threads :
        /\ hcall[t].pc = "loaded" /\ hcall[t].ret = "h1"
        /\ handler_h[hcall[t].kind] = "h2"
        /\ hcall[u].op = "set" /\ hcall[u].pc = "idle"
        /\ hcall[u].kind = hcall[t].kind /\ hcall[u].ret = "h1"

\* C19: invoked while installed, the default invalid-pointer handler and the
\* default buffer-overflow handler call std::abort() and never return to
\* their caller, after which nothing runs any more; the default leak
\* handler returns.
C19_DefaultsAbort ==
    [][/\ \A t \in Threads :
            (IsInvoke(t) /\ hcall[t].ret = default_handler(hcall[t].kind)) =>
                IF hcall[t].kind \in {"invalid_pointer", "buffer_overflow"}
                THEN aborted' /\ hcall'[t].pc = "aborting"
                ELSE ~aborted' /\ hcall'[t].pc = "idle"
       /\ ~aborted]_vars

\* the program was aborted by the default buffer-overflow handler, which a
\* set(nullptr) had installed again
C19_Witness ==
    \E t, u \in Threads :
        /\ aborted
        /\ hcall[t].pc = "aborting" /\ hcall[t].kind = "buffer_overflow"
        /\ hcall[u].op = "set" /\ hcall[u].kind = "buffer_overflow"
        /\ hcall[u].val = nullptr /\ hcall[u].ret \in UserHandlers

\* ------------------------------------------------------ reading ilog2
\* the least k with 2^k >= n
CeilLog2(n) == CHOOSE k \in 0 .. SizeBits : 2 ^ k >= n /\ (k = 0 \/ 2 ^ (k - 1) < n)

\* C20: for every size n >= 1 index_from_size(n) is ilog2(n), which is the
\* ceiling of log2(n) in the count-leading-zeros build and in the shift-loop
\* build alike: 1->0, 2->1, 3->2, 4->2, 5->3, 8->3, 9->4.
C20_IndexIsCeilLog2 ==
    /\ log2_call.fn = "index_from_size" =>
           /\ log2_call.ret = CeilLog2(log2_call.arg)
           /\ log2_call.ret = ilog2(log2_call.build, log2_call.arg)
           /\ ilog2_clz(log2_call.arg) = ilog2_loop(log2_call.arg)
    /\ \A build \in Builds :
           /\ index_from_size(build, 1) = 0
           /\ index_from_size(build, 2) = 1
           /\ index_from_size(build, 3) = 2
           /\ index_from_size(build, 4) = 2
           /\ index_from_size(build, 5) = 3
           /\ index_from_size(build, 8) = 3
           /\ index_from_size(build, 9) = 4

\* index_from_size(9) has returned 4 in the shift-loop build
C20_Witness ==
    /\ log2_call.fn = "index_from_size" /\ log2_call.build = "loop"
    /\ log2_call.arg = 9 /\ log2_call.ret = 4

\* ----------------------------------------------------------------- C21
\* the last call was size_from_index for the bucket of a request of size S
BucketOf(S) ==
    /\ log2_call.fn = "size_from_index"
    /\ log2_prev.fn = "index_from_size" /\ log2_prev.arg = S
    /\ log2_call.arg = log2_prev.ret

\* the last call was size_from_index for the bucket below that of S
BucketBelow(S) ==
    /\ log2_call.fn = "size_from_index"
    /\ log2_prev.fn = "index_from_size" /\ log2_prev.arg = S
    /\ log2_call.arg = log2_prev.ret - 1

\* C21: round-up: for every request size S >= 1 the bucket
\* index_from_size(S) has node size size_from_index(index_from_size(S)) >= S
\* and is the smallest such bucket: for S > 1 the bucket below is smaller
\* than S.
C21_RoundUp ==
    \A S \in 1 .. SizeMod - 1 :
        /\ BucketOf(S) => log2_call.ret >= S
        /\ (S > 1 /\ BucketBelow(S)) => log2_call.ret < S

\* ----------------------------------------------------------------- C22
\* C22: size_from_index(i) returns 2^i for every index i that
\* index_from_size can return for a non-zero size (0 <= i <= SizeBits).
C22_PowerOfTwo ==
    (log2_call.fn = "size_from_index" /\ log2_call.arg \in 0 .. SizeBits) =>
        log2_call.ret = 2 ^ log2_call.arg

\* ----------------------------------------------------------------- C23
\* C23: check_allocation_size(passed, supported, info) raises if and only
\* if passed > supported, and then after one call of the bad_allocation_size
\* handler with info, passed and supported; the exception is
\* bad_allocation_size carrying these three values (unless the handler
\* threw its own).  With passed <= supported, passed == supported included,
\* it returns normally and calls no handler.
C23_CheckAllocationSize ==
    lastNew.op = "check_allocation_size" =>
        LET passed == lastNew.a
            supported == lastNew.b
        IN  /\ lastNew.raised # NoRaise <=> passed > supported
            /\ passed <= supported => lastNew.handlers = <<>>
            /\ passed > supported =>
                   /\ lastNew.handlers =
                          <<HandlerCall("bad_allocation_size", lastNew.info,
                                        passed, supported)>>
                   /\ lastNew.raised \in
                          {Raised("bad_allocation_size", lastNew.info,
                                  passed, supported),
                           Raised("handler", lastNew.info, 0, 0)}

\* a size equal to the supported size has been checked and accepted
C23_Witness ==
    /\ lastNew.op = "check_allocation_size"
    /\ lastNew.a = lastNew.b /\ lastNew.a > 0
    /\ lastNew.raised = NoRaise

\* ----------------------------------------------------------------- C24
\* the one call of the out_of_memory handler of a request of sz bytes
OneOutOfMemoryCall(sz) == <<HandlerCall("out_of_memory", "new_allocator", sz, 0)>>

\* C24: new_allocator::allocate_node either returns a pointer obtained from
\* a successful low-level allocation or does not return normally, a null
\* pointer is never returned; when the low-level allocation has failed and
\* no std::new_handler is installed, the out_of_memory handler is called
\* exactly once for the request and the call then raises (out_of_memory,
\* unless the handler threw its own exception).
C24_OutOfMemoryPath ==
    /\ [](lastNew.op = "allocate_node" =>
            /\ lastNew.raised = NoRaise =>
                   /\ lastNew.ret \in NewPtrs
                   /\ new_nodes[lastNew.ret] = lastNew.a
                   /\ lastNew.tries >= 1
                   /\ lastNew.handlers = <<>>
            /\ lastNew.raised # NoRaise => lastNew.ret = NULL
            /\ lastNew.raised.what \in {"out_of_memory", "handler"} <=>
                   lastNew.handlers = OneOutOfMemoryCall(lastNew.a)
            /\ lastNew.raised.what = "new_handler" => lastNew.handlers = <<>>)
    /\ [][(npc = "failed" /\ ~new_handler) =>
             /\ npc' = "idle"
             /\ lastNew'.op = "allocate_node"
             /\ lastNew'.a = request.size
             /\ lastNew'.handlers = OneOutOfMemoryCall(request.size)
             /\ lastNew'.raised \in
                    {Raised("out_of_memory", "new_allocator", request.size, 0),
                     Raised("handler", "new_allocator", 0, 0)}
             /\ new_nodes' = new_nodes
       ]_vars
    /\ [][(npc = "try" /\ npc' = "idle") =>
             /\ lastNew'.raised = NoRaise
             /\ new_nodes[lastNew'.ret] = 0
       ]_vars

\* the first low-level allocation of a request failed with no
\* std::new_handler installed: one handler call, then out_of_memory
C24_Witness ==
    /\ lastNew.op = "allocate_node"
    /\ lastNew.raised.what = "out_of_memory"
    /\ lastNew.tries = 1
    /\ Len(lastNew.handlers) = 1

\* ----------------------------------------------------------------- C25
\* the bytes of the nodes handed out and not yet given back
RECURSIVE NodeBytes(_, _)
NodeBytes(nodes, ps) ==
    IF ps = {} THEN 0
    ELSE LET p == CHOOSE q \in ps : TRUE
         IN  nodes[p] + NodeBytes(nodes, ps \ {p})

LeakCalls(done) ==
    {i \in 1 .. Len(done.handlers) : done.handlers[i].kind = "leak"}

\* C25: with leak checking enabled and one thread, the byte counter of
\* new_allocator is the sum of the sizes of the successful allocate_node
\* calls minus the sum of the sizes passed to deallocate_node, a failed
\* allocate_node leaving it unchanged; the leak handler is called only when
\* the destruction of a leak checker initializer brings the initializer
\* count to 0, then exactly once and with the outstanding byte count, and
\* only if that count is not zero.
C25_LeakReporting ==
    /\ [](alloc_counter = NodeBytes(new_nodes, NewPtrs))
    /\ [](LeakCalls(lastNew) # {} => lastNew.op = "~initializer")
    /\ [][
           /\ (npc = "try" /\ npc' = "idle") =>
                alloc_counter' = alloc_counter + request.size
           /\ (npc = "failed" /\ npc' = "idle") =>
                alloc_counter' = alloc_counter
           /\ (npc = "idle" /\ new_nodes' # new_nodes) =>
                /\ lastNew'.op = "deallocate_node"
                /\ alloc_counter' = alloc_counter - lastNew'.a
           /\ (npc' # "idle" \/ (npc = "idle" /\ new_nodes' = new_nodes)) =>
                alloc_counter' = alloc_counter
           /\ IF init_counter' = init_counter - 1
              THEN /\ lastNew'.op = "~initializer"
                   /\ lastNew'.handlers =
                          IF init_counter' = 0 /\ alloc_counter # 0
                          THEN <<HandlerCall("leak", "new_allocator",
                                             alloc_counter, 0)>>
                          ELSE <<>>
              ELSE lastNew' = lastNew \/ LeakCalls(lastNew') = {}
       ]_vars

\* the last initializer has been destroyed while two nodes of 8 and 24
\* bytes were outstanding: one report of 32 bytes
C25_Witness ==
    /\ lastNew.op = "~initializer"
    /\ init_counter = 0
    /\ lastNew.handlers = <<HandlerCall("leak", "new_allocator", 32, 0)>>

C26_NextBlockSize ==
    [][\A l \in Lists :
          (lastOp'.op = "allocate" /\ lastOp'.l = l /\ ~lastOp'.threw) =>
             lastOp'.ret.size = next_block_size(l)
    ]_vars

\* ----------------------------------------------------------------- C28
\* k calls of an operation on the members b: the members afterwards and
\* what the calls returned, in order
RECURSIVE DeallocateTimes(_, _)
DeallocateTimes(b, k) ==
    IF k = 0 THEN [b |-> b, blocks |-> <<>>]
    ELSE LET first == deallocate_on(b)
             rest  == DeallocateTimes(first, k - 1)
         IN  [b |-> rest.b, blocks |-> <<first.ret>> \o rest.blocks]

RECURSIVE AllocateTimes(_, _)
AllocateTimes(b, k) ==
    IF k = 0 THEN [b |-> b, blocks |-> <<>>]
    ELSE LET first == allocate_on(b)
             rest  == AllocateTimes(first, k - 1)
         IN  [b |-> rest.b, blocks |-> <<first.ret>> \o rest.blocks]

MembersOf(l) == Members(node, used_[l], free_[l], size_[l], cur_block_size_[l])

\* a step of deallocate() or of allocate() from the cache changes the
\* members of its list as deallocate_on and allocate_on say
CallsConform ==
    \A l \in Lists :
        LET after == Members(node', used_'[l], free_'[l], size_'[l],
                             cur_block_size_'[l])
        IN  /\ (lastOp'.op = "deallocate" /\ lastOp'.l = l) =>
                   /\ [deallocate_on(MembersOf(l)) EXCEPT !.ret = NoBlock] = after
                   /\ deallocate_on(MembersOf(l)).ret = lastOp'.ret
                   /\ heap' = heap
            /\ (lastOp'.op = "allocate" /\ lastOp'.l = l /\ ~lastOp'.threw
                   /\ ~impl_empty(free_[l])) =>
                   /\ [allocate_on(MembersOf(l)) EXCEPT !.ret = NoBlock] = after
                   /\ allocate_on(MembersOf(l)).ret = lastOp'.ret
                   /\ heap' = heap

\* C28: the block cache is LIFO and lossless: from any state with at least
\* k used blocks, k calls of deallocate() followed by k calls of allocate()
\* make no upstream call, leave cur_block_size unchanged and restore used to
\* the same blocks in the same order; the i-th of these allocate() calls
\* returns the address and usable size of the block deallocated
\* (k - i + 1)-th.
C28_CacheIsLifo ==
    /\ [](\A l \in Lists :
            lstate[l] = "live" =>
               \A k \in 1 .. Len(Used(l)) :
                  LET gone == DeallocateTimes(MembersOf(l), k)
                      back == AllocateTimes(gone.b, k)
                  IN  /\ back.b.calls = 0
                      /\ back.b.cur = cur_block_size_[l]
                      /\ back.b.used = used_[l]
                      /\ Chain(back.b.node, back.b.used) = Used(l)
                      /\ Chain(back.b.node, back.b.free) = Free(l)
                      /\ back.b.size = size_[l]
                      /\ \A i \in 1 .. k :
                             /\ gone.blocks[i] =
                                    block_info(Addr(Used(l)[i]) + impl_offset,
                                               heap[Used(l)[i]].size - impl_offset)
                             /\ back.blocks[i] = gone.blocks[k - i + 1])
    /\ [][CallsConform]_vars

\* two blocks have been deallocated and taken back from the cache, which
\* is empty again
C28_Witness ==
    /\ lastOp.op = "allocate" /\ ~lastOp.threw /\ lastOp.req = 0
    /\ Len(Used(lastOp.l)) >= 2
    /\ Free(lastOp.l) = <<>>
    /\ fresh[lastOp.l] = 2

\* ----------------------------------------------------------------- C29
\* C29: immediately after allocate() has returned a block, fresh or from
\* the cache, top() returns the same memory pointer and usable size; after
\* a following deallocate() top() is again the block that was on top before
\* that allocate().
C29_TopIsLastAllocated ==
    [][\A l \in Lists :
          (lastOp'.op = "allocate" /\ lastOp'.l = l /\ ~lastOp'.threw) =>
             /\ impl_top(node', used_'[l]) = lastOp'.ret
             /\ ~impl_empty(used_[l]) =>
                    LET after == Members(node', used_'[l], free_'[l],
                                         size_'[l], cur_block_size_'[l])
                        then  == deallocate_on(after)
                    IN  /\ then.used = used_[l]
                        /\ impl_top(then.node, then.used) = top(l)
                        /\ then.ret = lastOp'.ret
    ]_vars

\* a block from the cache has been returned on top of a block in use
C29_Witness ==
    /\ lastOp.op = "allocate" /\ ~lastOp.threw /\ lastOp.req = 0
    /\ Len(Used(lastOp.l)) = 2
    /\ top(lastOp.l) = lastOp.ret

\* ----------------------------------------------------------------- C30
\* C30: the "stack underflow" assertions of push(other), pop() and top()
\* never fail inside allocate(), shrink_to_fit() or the destructor; they
\* fail only when deallocate() or top() is called while no block is in use
\* (size() == 0).
C30_UnderflowOnlyWhenEmpty ==
    underflow # NoUnderflow =>
        /\ underflow.op \in {"deallocate", "top"}
        /\ underflow.size = 0

\* deallocate() was called once more than allocate(): the assertion failed
\* with the blocks in the cache
C30_Witness ==
    /\ underflow.op = "deallocate" /\ underflow.size = 0
    /\ free_[underflow.l] # NULL

\* ------------------------------------------------------------------ C31
\* the threads inside an operation of allocator object a
InsideAllocator(a) ==
    {t \in Threads : pc[t] = "inside" /\ stored[call[t].w] = a}

\* C31: mutual exclusion is per allocator_storage object.  Constructing an
\* allocator_storage as a copy of, or by moving from, another one gives the
\* new object an unlocked mutex of its own whatever the state of the other
\* object's mutex, and changes no other mutex; assigning to an
\* allocator_storage changes no mutex at all, the target's included.  (That
\* two copies referring to one stateful allocator then admit two threads
\* into it at once is the state C31_Witness describes.)
C31_MutexPerObject ==
    [][
        lastCopy' # lastCopy =>
            LET c == lastCopy' IN
            /\ (c.op \in {"copy", "move"} =>
                    /\ mutex_'[c.dst] = NULL
                    /\ \A w \in Wrappers \ {c.dst} : mutex_'[w] = mutex_[w])
            /\ (c.op \in {"copy_assign", "move_assign"} => mutex_' = mutex_)
    ]_vars

\* two threads are inside the same stateful allocator at once, one through
\* an allocator_storage and one through the copy made of it while its mutex
\* was locked
C31_Witness ==
    /\ lastCopy.op = "copy"
    /\ mutex_[lastCopy.src] # NULL
    /\ mutex_[lastCopy.dst] # NULL
    /\ mutex_[lastCopy.src] # mutex_[lastCopy.dst]
    /\ Cardinality(InsideAllocator(stored[lastCopy.src])) = 2
    /\ \E t, u \in Threads :
           /\ t # u
           /\ pc[t] = "inside" /\ call[t].w = lastCopy.src
           /\ pc[u] = "inside" /\ call[u].w = lastCopy.dst

\* ------------------------------------------------------------------ C32
\* thread t's call of a locking operation ends in this step: the result or
\* the error reaches the caller
CallEnds(t) ==
    /\ pc[t] \in {"returning", "throwing"}
    /\ call[t].via = "storage"
    /\ pc'[t] = "idle"

\* C32: when a call of allocate_node, allocate_array, max_node_size,
\* max_array_size or max_alignment ends because the stored allocator raised,
\* the wrapper's mutex is unlocked in the step in which the error reaches
\* the caller, as it is when the call returns; and a mutex is owned only by
\* a thread that is inside a call on that wrapper or holds a live proxy of
\* it, never by a thread whose call has ended.
C32_ReleasedOnError ==
    /\ [](\A w \in Wrappers, t \in Threads :
             mutex_[w] = t =>
                 \/ t \in InGuard(w)
                 \/ \E p \in Holding(w) : proxy[p].thread = t)
    /\ [][
           \A t \in Threads :
               CallEnds(t) =>
                   /\ mutex_'[call[t].w] = NULL
                   /\ \A w \in Wrappers \ {call[t].w} : mutex_'[w] = mutex_[w]
       ]_vars

\* the stored allocator has raised in one of the five operations; the
\* calling thread still owns the mutex and the other thread waits in lock()
\* of the same wrapper
C32_Witness ==
    \E t, u \in Threads :
        /\ pc[t] = "throwing" /\ call[t].op \in MayThrow
        /\ mutex_for(call[t].w) = "Mutex" /\ mutex_[call[t].w] = t
        /\ pc[u] = "enter" /\ call[u].op = "lock" /\ call[u].w = call[t].w

\* ------------------------------------------------------------------ C33
\* thread t begins an operation of the allocator through a proxy
IsProxyCall(t) ==
    pc[t] = "idle" /\ pc'[t] = "inside" /\ call'[t].via = "proxy"

\* thread u waits for a real mutex another thread owns
WaitsForOther(u) ==
    /\ pc[u] = "enter"
    /\ mutex_for(call[u].w) = "Mutex"
    /\ mutex_[call[u].w] \notin {NULL, u}

ImplCount(op, count) ==
    IF op \in {"allocate_node", "deallocate_node"} THEN 1 ELSE count

\* the memory was obtained by an operation that reached allocate_impl with
\* this count and size: count 1 leaves a node, another count an array of
\* that many elements
ObtainedWith(rec, count, sz) ==
    /\ rec.size = sz
    /\ IF count = 1 THEN rec.kind = "allocate_node"
       ELSE rec.kind = "allocate_array" /\ rec.count = count

\* C34: through a type-erased reference the count decides which operation
\* of the wrapped allocator is reached: allocate_array / deallocate_array
\* with count 1 reach allocate_node / deallocate_node, with any other
\* count they reach allocate_array / deallocate_array with that count.
\* Memory that was obtained through the erased reference with some count
\* and size and is returned through it with the same count and size
\* reaches a matching pair: deallocate_node for memory obtained by
\* allocate_node, deallocate_array with the same count for memory obtained
\* by allocate_array.
C34_CountDecides ==
    [][
        \A r \in Refs :
            (IsRefCall(r) /\ ref[r].erased) =>
                LET op == lastRefOp'.op
                    n  == lastRefOp'.count
                    sz == lastRefOp'.size
                    to == lastRefOp'.reached
                    a  == ref[r].from
                IN  /\ (op \in {"allocate_array", "deallocate_array"} =>
                           to.op = IF n = 1
                                   THEN IF op = "allocate_array"
                                        THEN "allocate_node"
                                        ELSE "deallocate_node"
                                   ELSE op)
                    /\ (op \in {"allocate_array", "deallocate_array"} /\ n # 1
                           => to.count = n)
                    /\ (op \in {"deallocate_node", "deallocate_array"}
                          /\ ObtainedWith(allocated[a][lastRefOp'.ptr],
                                          ImplCount(op, n), sz)
                           => /\ lastRefOp'.freed = allocated[a][lastRefOp'.ptr]
                              /\ to.op = IF lastRefOp'.freed.kind = "allocate_node"
                                         THEN "deallocate_node"
                                         ELSE "deallocate_array"
                              /\ to.op = "deallocate_array" =>
                                     to.count = lastRefOp'.freed.count
                              /\ to.size = lastRefOp'.freed.size)
    ]_vars

\* memory obtained as a node has been returned through a type-erased
\* reference by deallocate_array with count 1, which reached deallocate_node
C34_Witness ==
    /\ lastRefOp.r \in Refs
    /\ ref[lastRefOp.r].st = "live" /\ ref[lastRefOp.r].erased
    /\ lastRefOp.op = "deallocate_array" /\ lastRefOp.count = 1
    /\ lastRefOp.freed.kind = "allocate_node"
    /\ lastRefOp.freed.size = lastRefOp.size
    /\ lastRefOp.reached.op = "deallocate_node"
    /\ allocated[ref[lastRefOp.r].from][lastRefOp.ptr] = NoRec

\* ------------------------------------------------------------------ C35
\* C35: under every interleaving of set calls of several threads, the
\* handlers the calls returned as previous handler together with the handler
\* installed now are, counted with multiplicity, the initial (default)
\* handler together with the handlers the calls installed, nullptr counting
\* as the default: for every handler, installations less returns is one if
\* it is the handler installed now, less one if it is the initial handler.
\* No installed handler is lost and none is returned twice.
C35_ExchangeAccounting ==
    \A k \in Kinds :
        \A g \in HandlersOf(k) :
            ledger[k][g] = (IF g = handler_h[k] THEN 1 ELSE 0)
                           - (IF g = default_handler(k) THEN 1 ELSE 0)

\* both threads have replaced the leak handler: one call installed h1 and
\* returned the default handler, the other installed h2 and returned h1
C35_Witness ==
    \E t, u \in Threads :
        /\ hcall[t].pc = "idle" /\ hcall[t].op = "set"
        /\ hcall[u].pc = "idle" /\ hcall[u].op = "set"
        /\ hcall[t].kind = "leak" /\ hcall[u].kind = "leak"
        /\ hcall[t].val = "h1" /\ hcall[t].ret = default_handler("leak")
        /\ hcall[u].val = "h2" /\ hcall[u].ret = "h1"
        /\ handler_h["leak"] = "h2"
        /\ ledger["leak"]["h2"] = 1
        /\ ledger["leak"]["h1"] = 0
        /\ ledger["leak"][default_handler("leak")] = 0 - 1

\* ----------------------------------------------------------------- C36
\* no thread is inside a call of new_allocator
AllReturned == \A t \in Threads : ncall[t].pc = "idle"

\* C36: with leak checking enabled and several threads calling
\* allocate_node and deallocate_node of new_allocator at the same time,
\* once all calls have returned the byte counter is the number of bytes
\* allocated and not deallocated, no update of it being lost, and the
\* destruction of the last leak checker initializer calls the leak handler
\* if and only if memory is outstanding.
C36_NoLostUpdate ==
    /\ [](AllReturned => alloc_counter = NodeBytes(new_nodes, NewPtrs))
    /\ [][
           (AllReturned /\ init_counter = 1 /\ init_counter' = 0) =>
               (LeakCalls(lastNew') # {} <=>
                    NodeBytes(new_nodes, NewPtrs) # 0)
       ]_vars

\* ----------------------------------------------------------------- C37
\* the last call was index_from_size for the node size size_from_index had
\* returned for bucket i
RoutedBack(i) ==
    /\ log2_call.fn = "index_from_size"
    /\ log2_prev.fn = "size_from_index" /\ log2_prev.arg = i
    /\ log2_call.arg = log2_prev.ret

\* C37: round trip: for every bucket index i whose node size 2^i is
\* representable in std::size_t (0 <= i < SizeBits),
\* index_from_size(size_from_index(i)) is i.
C37_RoundTrip ==
    \A i \in 0 .. SizeBits - 1 : RoutedBack(i) => log2_call.ret = i

\* the round trip where the shift is defined: for the buckets whose node
\* size is representable in int, the type 1 << index is computed in
C37_RoundTripInInt ==
    \A i \in 0 .. IntBits - 2 : RoutedBack(i) => log2_call.ret = i
====
